---- MODULE Spec2Model ----
(***************************************************************************)
(* The AML investigation graph of app/agents: the full graph of            *)
(* production_workflow.py and the simplified graph of                      *)
(* production_workflow_simple.py, run over one case from the call of       *)
(* run_analysis until the graph reaches END or a stage raises.             *)
(* Python strings are TLA+ strings, `a in b` on strings is Contains, lists *)
(* are sequences, dicts are functions with string domains and the Python   *)
(* None is the string "None".                                              *)
(***************************************************************************)
EXTENDS Integers, Sequences, FiniteSets, TLC

VARIABLES graph, raw, state, node, pc, local, executed,
          INVESTIGATION_RESULTS, CHAT_THREADS,
          processing_stats, method, rows, idx, results, bpc, stats_before, failed,
          runs, args, returned

\* the module-level registry of results and the chat threads
registry_vars == <<INVESTIGATION_RESULTS, CHAT_THREADS>>

\* the workflow module: the case the graph is running and the registry
case_vars == <<graph, raw, state, node, pc, local, executed, registry_vars>>

\* one run of the batch processor
batch_vars == <<processing_stats, method, rows, idx, results, bpc, stats_before, failed,
               runs>>

\* one call of a detector or of a metrics calculator
call_vars == <<args, returned>>

vars == <<case_vars, batch_vars, call_vars>>

None == "None"
END == "END"
ABORTED == "ABORTED"

\* ------------------------------------------------------------------------
\* Configuration variables
\* ------------------------------------------------------------------------
HIGH_RISK_COUNTRIES == <<"AF", "IR", "KP", "SY", "VE", "CU", "BY", "MM", "ZW", "RU">>
TAX_HAVENS == <<"KY", "VG", "BM", "PA", "MT", "AE", "LI", "MC", "AN">>
SANCTIONED_ENTITIES ==
    <<"narcotics_cartel_xyz", "terror_group_abc", "sanctioned_russian_bank",
      "hezbollah_front_company", "isis_financial_network">>
DARKNET_MARKETS == <<"AlphaMarket", "Dark0d3", "Hydra", "Silk_Road_Reborn", "Dream_Market">>
HIGH_RISK_BANKS == <<"03208", "03209", "0211050", "0245335">>
CTR_THRESHOLD == 10000
pep_keywords == <<"gov", "minister", "official", "senator", "president", "director", "ambassador">>

\* ------------------------------------------------------------------------
\* Python primitives
\* ------------------------------------------------------------------------
Range(s) == {s[i] : i \in 1..Len(s)}

Min(a, b) == IF a < b THEN a ELSE b

\* dict.get(key, default)
Get(d, key, default) == IF key \in DOMAIN d THEN d[key] ELSE default

\* the value of Body for v, with v computed once (a Python local variable)
Bind(v, Body(_)) == CHOOSE r \in {Body(x) : x \in {v}} : TRUE

\* pat in s, for two strings
Contains(pat, s) ==
    \E p \in {pat} : \E t \in {s} :
        \E i \in 0..(Len(t) - Len(p)) : SubSeq(t, i + 1, i + Len(p)) = p

UpperToLower ==
    [c \in {"A","B","C","D","E","F","G","H","I","J","K","L","M","N","O","P","Q",
            "R","S","T","U","V","W","X","Y","Z"} |->
        CASE c = "A" -> "a" [] c = "B" -> "b" [] c = "C" -> "c" [] c = "D" -> "d"
          [] c = "E" -> "e" [] c = "F" -> "f" [] c = "G" -> "g" [] c = "H" -> "h"
          [] c = "I" -> "i" [] c = "J" -> "j" [] c = "K" -> "k" [] c = "L" -> "l"
          [] c = "M" -> "m" [] c = "N" -> "n" [] c = "O" -> "o" [] c = "P" -> "p"
          [] c = "Q" -> "q" [] c = "R" -> "r" [] c = "S" -> "s" [] c = "T" -> "t"
          [] c = "U" -> "u" [] c = "V" -> "v" [] c = "W" -> "w" [] c = "X" -> "x"
          [] c = "Y" -> "y" [] c = "Z" -> "z"]

\* str.lower()
Lower(s) ==
    LET LowerChar(c) == IF c \in DOMAIN UpperToLower THEN UpperToLower[c] ELSE c
        RECURSIVE Prefix(_, _)
        Prefix(t, i) == IF i = 0 THEN ""
                        ELSE Prefix(t, i - 1) \o LowerChar(SubSeq(t, i, i))
        Whole(t) == Prefix(t, Len(t))
    IN  Bind(s, Whole)

\* [x for x in s if Test(x)]
Filter(s, Test(_)) == SelectSeq(s, Test)

\* ------------------------------------------------------------------------
\* Utility functions
\* ------------------------------------------------------------------------
check_pep_database(name) ==
    \E k \in Range(pep_keywords) : Contains(k, Lower(name))

\* the simplified module returns False for an empty name first
check_pep_database_simple(name) ==
    IF name = "" THEN FALSE
    ELSE \E k \in Range(pep_keywords) : Contains(k, Lower(name))

\* hits of one entity: one append per sanctioned name it contains
RECURSIVE entity_hits(_, _)
entity_hits(entity, i) ==
    IF i > Len(SANCTIONED_ENTITIES) THEN <<>>
    ELSE (IF Contains(Lower(SANCTIONED_ENTITIES[i]), Lower(entity))
          THEN <<entity>> ELSE <<>>) \o entity_hits(entity, i + 1)

\* entity.lower() raises AttributeError on None
sanctions_raises(entities) == \E i \in 1..Len(entities) : entities[i] = None

\* the hits of entities[i..]
RECURSIVE hits_from(_, _)
hits_from(entities, i) ==
    IF i > Len(entities) THEN <<>>
    ELSE entity_hits(entities[i], 1) \o hits_from(entities, i + 1)

check_sanctions_list(entities) == hits_from(entities, 1)

\* the simplified module skips None and empty entities
check_sanctions_list_simple(entities) ==
    LET Present(entity) == entity # None /\ entity # ""
    IN  hits_from(Filter(entities, Present), 1)

\* variant: the path is restarted at every step
update_path_overwrites(s, step) == [s EXCEPT !.decision_path = <<step>>]

update_path(s, step) == [s EXCEPT !.decision_path = Append(@, step)]


EmptyDict == [k \in {} |-> None]

\* crypto_details of a record that carries none (Python None)
NoDetails == [none |-> TRUE]

\* ------------------------------------------------------------------------
\* Inputs of run_analysis: the raw transaction and the customer
\* ------------------------------------------------------------------------
Amounts == {9600, 100000, 250000}

BankIds == {"03208", "00077"}

CounterpartyIds == {"acme_corp", "terror_group_abc"}

CustomerNames == {"Alice Smith", "Minister Bob", "Terror_Group_ABC Ltd"}

Countries == {"US", "IR"}

IntermediateCountries == {<<>>, <<"KY", "RU">>}

DocumentLists == {<<>>, <<"invoice.pdf">>}

CryptoDetails ==
    { [mixer_used |-> TRUE, darknet_market |-> "Hydra", wallet_age_days |-> 2,
       cross_chain_swaps |-> 5],
      [mixer_used |-> FALSE, wallet_age_days |-> 400] }

\* a date string datetime.fromisoformat rejects, such as the "" that
\* tx.get("transaction_date", "") gives for a transaction without a date
NoDate == -1

\* a history entry: amount and age of the entry relative to the current
\* transaction, in hours (current_timestamp - tx_timestamp), or NoDate when
\* its timestamp is a string that is not a date
HistoryTx(a, h) == [amount |-> a, hours_ago |-> h]

Histories ==
    { <<>>,
      <<HistoryTx(9600, 1), HistoryTx(9600, 2), HistoryTx(9600, 3)>>,
      <<HistoryTx(9600, 1), HistoryTx(9700, 2), HistoryTx(9600, 3),
        HistoryTx(9500, 30), HistoryTx(9600, 5), HistoryTx(9800, 6)>>,
      <<HistoryTx(9600, 1), HistoryTx(9600, NoDate)>> }

Optional(key, v) == IF v = None THEN EmptyDict ELSE (key :> v)

HiSmallTransRecords ==
    { ("From Bank" :> fb) @@ ("To Bank" :> tb) @@ ("Amount Received" :> a) :
        fb \in BankIds, tb \in BankIds, a \in Amounts }

FiatRecords ==
    { ("transaction_id" :> "TXN_1") @@ ("amount" :> a) @@ ("asset_type" :> "FIAT")
        @@ ("country" :> c) @@ ("intermediate_countries" :> ic)
        @@ Optional("counterparty_id", cp) @@ ("documents" :> docs) :
        a \in Amounts, c \in Countries, ic \in IntermediateCountries,
        cp \in CounterpartyIds \cup {None}, docs \in DocumentLists }

CryptoRecords ==
    { ("transaction_id" :> "TXN_2") @@ ("amount" :> a) @@ ("asset_type" :> "CRYPTO")
        @@ ("country" :> "US") @@ ("counterparty_id" :> cp)
        @@ ("documents" :> docs) @@ cd :
        a \in Amounts, cp \in CounterpartyIds, docs \in DocumentLists,
        cd \in {("crypto_details" :> d) : d \in CryptoDetails} \cup {EmptyDict} }

\* the label a record may carry under the key is_laundering
Labels == {0, 1}

FraudRecords ==
    { ("SENDER_ACCOUNT_ID" :> "ACC_1") @@ ("RECEIVER_ACCOUNT_ID" :> cp)
        @@ ("amount" :> a) @@ label :
        cp \in CounterpartyIds, a \in Amounts,
        label \in {EmptyDict} \cup {("is_laundering" :> l) : l \in Labels} }

UnknownRecords == { ("id" :> "R_1") @@ ("value" :> 250000) }

RawTransactions ==
    HiSmallTransRecords \cup FiatRecords \cup CryptoRecords \cup FraudRecords
        \cup UnknownRecords

Customers ==
    [name : CustomerNames, account_age_days : {3, 30}, transaction_history : Histories]

\* ------------------------------------------------------------------------
\* unify_transaction_data: one branch per sentinel key, {} otherwise
\* ------------------------------------------------------------------------
unify_transaction_data(transaction) ==
    IF "From Bank" \in DOMAIN transaction THEN
        [amount |-> Get(transaction, "Amount Received", 0),
         counterparty_id |-> Get(transaction, "To Bank", "unknown"),
         country |-> "Unknown",
         from_bank |-> Get(transaction, "From Bank", None),
         to_bank |-> Get(transaction, "To Bank", None)]
    ELSE IF "transaction_id" \in DOMAIN transaction THEN
        [amount |-> Get(transaction, "amount", 0),
         counterparty_id |-> Get(transaction, "counterparty_id", None),
         country |-> Get(transaction, "country", "Unknown"),
         asset_type |-> Get(transaction, "asset_type", "FIAT"),
         crypto_details |-> Get(transaction, "crypto_details", NoDetails),
         origin_country |-> Get(transaction, "origin_country", None),
         destination_country |-> Get(transaction, "destination_country", None),
         intermediate_countries |-> Get(transaction, "intermediate_countries", <<>>),
         documents |-> Get(transaction, "documents", <<>>)]
    ELSE IF "SENDER_ACCOUNT_ID" \in DOMAIN transaction THEN
        [amount |-> Get(transaction, "amount", 0),
         counterparty_id |-> Get(transaction, "RECEIVER_ACCOUNT_ID", "unknown"),
         country |-> "Unknown"]
    ELSE EmptyDict

\* the AMLState run_analysis hands to workflow.invoke; the Optional[int]
\* ground_truth_label is the empty list for None and <<label>> otherwise
initial_state(transaction, customer) ==
    [transaction |-> unify_transaction_data(transaction),
     customer |-> customer,
     ground_truth_label |-> IF "is_laundering" \in DOMAIN transaction
                            THEN <<transaction["is_laundering"]>> ELSE <<>>,
     risk_score |-> 0,
     alerts |-> <<>>,
     risk_factors |-> <<>>,
     decision_path |-> <<>>,
     pep_status |-> None,
     sanction_hits |-> <<>>,
     documents |-> Get(transaction, "documents", <<>>),
     document_risks |-> <<>>,
     structuring_detected |-> FALSE,
     smurfing_detected |-> FALSE,
     reporting_status |-> None,
     case_id |-> None,
     review_status |-> None]


\* ------------------------------------------------------------------------
\* Replies of the external analyzer, as the list of codes re.findall
\* extracts from the reply text
\* ------------------------------------------------------------------------
LLMReplies ==
    { <<>>,
      <<"CRYPTO_TUMBLER">>,
      <<"SHELL_COMPANY", "HIGH_RISK_JURISDICTION">> }

\* values of generate_case_id(): 12 hex digits of a hash of the clock
CaseIds == {"3f9a1c0b7e21", "a07c44d1e9b2"}

\* bool(x) of a string or None
Truthy(x) == x # None /\ x # ""

\* ------------------------------------------------------------------------
\* Analysis nodes.  A node that awaits the external analyzer is split at
\* the await: X_begin runs up to the call, X_end from the reply on.
\* ------------------------------------------------------------------------
document_analysis_begin(s) == update_path(s, "document_analysis")

document_analysis_missing(s) == [s EXCEPT !.alerts = Append(@, "MISSING_DOCUMENTS")]

document_analysis_end(s, risk_codes) ==
    [s EXCEPT !.risk_factors = @ \o risk_codes,
              !.document_risks = risk_codes]

\* the factors of locations[i..]
RECURSIVE country_factors(_, _)
country_factors(locations, i) ==
    IF i > Len(locations) THEN <<>>
    ELSE LET country == locations[i]
         IN  (IF country \in Range(HIGH_RISK_COUNTRIES)
              THEN <<"HIGH_RISK_" \o country>> ELSE <<>>)
             \o (IF country \in Range(TAX_HAVENS)
                 THEN <<"TAX_HAVEN_" \o country>> ELSE <<>>)
             \o country_factors(locations, i + 1)

geographic_risk_assessment(s0) ==
    LET s == update_path(s0, "geo_analysis")
        tx == s.transaction
        locations == Filter(<<Get(tx, "origin_country", ""),
                              Get(tx, "destination_country", ""),
                              Get(tx, "country", "")>>
                                \o Get(tx, "intermediate_countries", <<>>),
                            Truthy)
    IN  [s EXCEPT !.risk_factors = @ \o country_factors(locations, 1)]

\* (current_timestamp - tx_timestamp).days
Days(hours_ago) == hours_ago \div 24

Sum(f) ==
    LET RECURSIVE Acc(_)
        Acc(i) == IF i = 0 THEN 0 ELSE f[i] + Acc(i - 1)
    IN  Acc(Len(f))

\* statistics.stdev(amounts) < 500, in integers: with n amounts of sum S,
\* sum((n*x - S)^2) < 500^2 * n^2 * (n - 1); a single deviation of
\* 500 * n * (n - 1) or more already decides it
stdev_below_500(amounts) ==
    LET n == Len(amounts)
        Dev(S) == [i \in 1..n |-> IF n * amounts[i] >= S THEN n * amounts[i] - S
                                  ELSE S - n * amounts[i]]
        Below(dev) ==
            /\ \A i \in 1..n : dev[i] < 500 * n * (n - 1)
            /\ Sum([i \in 1..n |-> dev[i] * dev[i]]) < 250000 * n * n * (n - 1)
    IN  Bind(Bind(Sum(amounts), Dev), Below)

recent_transactions(s) ==
    LET history == Get(s.customer, "transaction_history", <<>>)
        InLastDay(tx) == Days(tx.hours_ago) < 1
    IN  Filter(history, InLastDay) \o <<[amount |-> Get(s.transaction, "amount", 0)]>>

structuring_alerts(recent_txs) ==
    (IF Len(recent_txs) > 3 /\ \A i \in 1..Len(recent_txs) :
                                  recent_txs[i].amount < CTR_THRESHOLD
     THEN <<"STRUCTURING_PATTERN">> ELSE <<>>)
    \o (IF Len(recent_txs) > 5
           /\ Bind([i \in 1..Len(recent_txs) |-> recent_txs[i].amount],
                   stdev_below_500)
        THEN <<"UNIFORM_TRANSACTIONS">> ELSE <<>>)

behavioral_analysis_begin(s) == update_path(s, "behavior_analysis")

\* datetime.fromisoformat raises ValueError on a timestamp of the history
\* that is not a date
behavioral_analysis_raises(s) ==
    \E tx \in Range(Get(s.customer, "transaction_history", <<>>)) :
        tx.hours_ago = NoDate

behavioral_analysis_end(s, behavioral_codes) ==
    LET Result(alerts) ==
            [s EXCEPT !.alerts = @ \o alerts,
                      !.risk_factors = @ \o behavioral_codes,
                      !.structuring_detected = "STRUCTURING_PATTERN" \in Range(alerts)]
        Alerts(recent_txs) == structuring_alerts(recent_txs)
    IN  Bind(Bind(recent_transactions(s), Alerts), Result)

crypto_risk_analysis_begin(s) == update_path(s, "crypto_analysis")

\* details.get(...) raises AttributeError when crypto_details is None
crypto_risk_analysis_raises(s) ==
    Get(s.transaction, "crypto_details", EmptyDict) = NoDetails

crypto_rule_risks(details) ==
    (IF Get(details, "mixer_used", FALSE) THEN <<"CRYPTO_MIXER">> ELSE <<>>)
    \o (IF Get(details, "darknet_market", None) \in Range(DARKNET_MARKETS)
        THEN <<"DARKNET_CONNECTION">> ELSE <<>>)
    \o (IF Get(details, "wallet_age_days", 0) < 7 THEN <<"NEW_WALLET">> ELSE <<>>)
    \o (IF Get(details, "cross_chain_swaps", 0) > 3 THEN <<"COMPLEX_ROUTING">> ELSE <<>>)

crypto_risk_analysis_end(s, llm_risks) ==
    LET details == Get(s.transaction, "crypto_details", EmptyDict)
    IN  [s EXCEPT !.risk_factors = @ \o crypto_rule_risks(details) \o llm_risks]

sanction_parties(s) ==
    <<Get(s.customer, "name", ""), Get(s.transaction, "counterparty_id", "")>>

SanctionHitFactors(hits) == [i \in 1..Len(hits) |-> "SANCTION_HIT_" \o hits[i]]

sanctions_screening(s0) ==
    LET s == update_path(s0, "sanctions_check")
        Result(hits) == [s EXCEPT !.sanction_hits = hits,
                                  !.risk_factors = @ \o SanctionHitFactors(hits)]
    IN  Bind(check_sanctions_list(sanction_parties(s)), Result)

sanctions_screening_simple(s0) ==
    LET s == update_path(s0, "sanctions_check")
        Result(hits) == [s EXCEPT !.sanction_hits = hits,
                                  !.risk_factors = @ \o SanctionHitFactors(hits)]
    IN  Bind(check_sanctions_list_simple(sanction_parties(s)), Result)

PyBool(b) == IF b THEN "True" ELSE "False"

pep_screening(s0) ==
    LET s == update_path(s0, "pep_check")
        is_pep == check_pep_database(Get(s.customer, "name", ""))
    IN  [s EXCEPT !.pep_status = PyBool(is_pep),
                  !.risk_factors = IF is_pep THEN Append(@, "PEP_CUSTOMER") ELSE @]

pep_screening_simple(s0) ==
    LET s == update_path(s0, "pep_check")
        is_pep == check_pep_database_simple(Get(s.customer, "name", ""))
    IN  [s EXCEPT !.pep_status = PyBool(is_pep),
                  !.risk_factors = IF is_pep THEN Append(@, "PEP_CUSTOMER") ELSE @]

\* the state sanctions_screening was called with, as the call leaves it:
\* parties is the list the transaction holds, when it holds one, and the
\* two names are appended to it in place
sanctions_screening_received(s0) ==
    IF "parties" \in DOMAIN s0.transaction
    THEN [s0 EXCEPT !.transaction =
              [@ EXCEPT !["parties"] = @ \o sanction_parties(s0)]]
    ELSE s0

\* the state pep_screening was called with, as the call leaves it:
\* risk_factors is the list that state holds (update_path copies the
\* dictionary, not its values) and PEP_CUSTOMER is appended to it in place
pep_screening_received(s0, is_pep) ==
    [s0 EXCEPT !.risk_factors = IF is_pep THEN Append(@, "PEP_CUSTOMER") ELSE @]

\* the state node n of graph g was called with, as the node leaves it
received_state(g, n, s0) ==
    CASE n = "sanctions_check" -> sanctions_screening_received(s0)
      [] n = "pep_check" ->
            pep_screening_received(s0,
                IF g = "full" THEN check_pep_database(Get(s0.customer, "name", ""))
                ELSE check_pep_database_simple(Get(s0.customer, "name", "")))
      [] OTHER -> s0

enhanced_due_diligence_begin(s) == update_path(s, "enhanced_dd")

enhanced_due_diligence_end(s, critical_risks) ==
    [s EXCEPT !.risk_factors = @ \o critical_risks]


\* variant: the points are added to the score the case already has
risk_scoring_accumulating(s0) ==
    LET s == update_path(s0, "risk_scoring")
        HasCrypto(rf) == Contains("CRYPTO", rf)
        HasJurisdiction(rf) == Contains("HIGH_RISK", rf) \/ Contains("TAX_HAVEN", rf)
        score == s.risk_score
                 + 40 * Len(s.sanction_hits)
                 + (IF s.pep_status = "True" THEN 35 ELSE 0)
                 + 25 * Len(Filter(s.risk_factors, HasCrypto))
                 + 20 * Len(Filter(s.risk_factors, HasJurisdiction))
                 + 15 * Len(s.document_risks)
                 + 10 * Len(s.alerts)
                 + (IF s.structuring_detected THEN 30 ELSE 0)
                 + (IF s.smurfing_detected THEN 30 ELSE 0)
    IN  [s EXCEPT !.risk_score = Min(score, 100)]

\* variant: the score is not capped
risk_scoring_uncapped(s0) ==
    LET s == update_path(s0, "risk_scoring")
        HasCrypto(rf) == Contains("CRYPTO", rf)
        HasJurisdiction(rf) == Contains("HIGH_RISK", rf) \/ Contains("TAX_HAVEN", rf)
        score == 40 * Len(s.sanction_hits)
                 + (IF s.pep_status = "True" THEN 35 ELSE 0)
                 + 25 * Len(Filter(s.risk_factors, HasCrypto))
                 + 20 * Len(Filter(s.risk_factors, HasJurisdiction))
                 + 15 * Len(s.document_risks)
                 + 10 * Len(s.alerts)
                 + (IF s.structuring_detected THEN 30 ELSE 0)
                 + (IF s.smurfing_detected THEN 30 ELSE 0)
    IN  [s EXCEPT !.risk_score = score]

risk_scoring(s0) ==
    LET s == update_path(s0, "risk_scoring")
        HasCrypto(rf) == Contains("CRYPTO", rf)
        HasJurisdiction(rf) == Contains("HIGH_RISK", rf) \/ Contains("TAX_HAVEN", rf)
        score == 40 * Len(s.sanction_hits)
                 + (IF s.pep_status = "True" THEN 35 ELSE 0)
                 + 25 * Len(Filter(s.risk_factors, HasCrypto))
                 + 20 * Len(Filter(s.risk_factors, HasJurisdiction))
                 + 15 * Len(s.document_risks)
                 + 10 * Len(s.alerts)
                 + (IF s.structuring_detected THEN 30 ELSE 0)
                 + (IF s.smurfing_detected THEN 30 ELSE 0)
    IN  [s EXCEPT !.risk_score = Min(score, 100)]

generate_sar_begin(s) == update_path(s, "sar_generation")

\* variant: the SAR is filed without storing the case number
generate_sar_end_unnumbered(s, case_id) ==
    [s EXCEPT !.reporting_status = "SAR_FILED"]

generate_sar_end(s, case_id) ==
    [s EXCEPT !.reporting_status = "SAR_FILED", !.case_id = case_id]

\* variant: the review stage files the report itself
human_review_files(s0) ==
    LET s == update_path(s0, "human_review")
    IN  [s EXCEPT !.reporting_status = "SAR_FILED", !.review_status = "PENDING"]

human_review(s0) ==
    LET s == update_path(s0, "human_review")
    IN  [s EXCEPT !.reporting_status = "HUMAN_REVIEW", !.review_status = "PENDING"]

\* ------------------------------------------------------------------------
\* Conditional routing logic
\* ------------------------------------------------------------------------
\* variant: the new-account test comes first among the fiat tests
route_initial_screening_age_first(s) ==
    LET tx == s.transaction
        customer == s.customer
    IN  IF Get(tx, "asset_type", None) = "CRYPTO" THEN "CRYPTO_TRANSACTION"
        ELSE IF Get(customer, "account_age_days", 365) < 7 THEN "NEW_ACCOUNT"
        ELSE IF Get(tx, "amount", 0) > 100000 THEN "LARGE_TRANSACTION"
        ELSE IF \/ Get(tx, "from_bank", None) \in Range(HIGH_RISK_BANKS)
                \/ Get(tx, "to_bank", None) \in Range(HIGH_RISK_BANKS)
             THEN "HIGH_RISK_BANK"
        ELSE "STANDARD_FLOW"

\* variant: the flagged-bank test comes before the new-account test
route_initial_screening_bank_first(s) ==
    LET tx == s.transaction
        customer == s.customer
    IN  IF Get(tx, "asset_type", None) = "CRYPTO" THEN "CRYPTO_TRANSACTION"
        ELSE IF Get(tx, "amount", 0) > 100000 THEN "LARGE_TRANSACTION"
        ELSE IF \/ Get(tx, "from_bank", None) \in Range(HIGH_RISK_BANKS)
                \/ Get(tx, "to_bank", None) \in Range(HIGH_RISK_BANKS)
             THEN "HIGH_RISK_BANK"
        ELSE IF Get(customer, "account_age_days", 365) < 7 THEN "NEW_ACCOUNT"
        ELSE "STANDARD_FLOW"

route_initial_screening(s) ==
    LET tx == s.transaction
        customer == s.customer
    IN  IF Get(tx, "asset_type", None) = "CRYPTO" THEN "CRYPTO_TRANSACTION"
        ELSE IF Get(tx, "amount", 0) > 100000 THEN "LARGE_TRANSACTION"
        ELSE IF Get(customer, "account_age_days", 365) < 7 THEN "NEW_ACCOUNT"
        ELSE IF \/ Get(tx, "from_bank", None) \in Range(HIGH_RISK_BANKS)
                \/ Get(tx, "to_bank", None) \in Range(HIGH_RISK_BANKS)
             THEN "HIGH_RISK_BANK"
        ELSE "STANDARD_FLOW"

route_initial_screening_simple(s) ==
    LET tx == s.transaction
        customer == s.customer
    IN  IF Get(tx, "asset_type", None) = "CRYPTO" THEN "LARGE_TRANSACTION"
        ELSE IF Get(tx, "amount", 0) > 100000 THEN "LARGE_TRANSACTION"
        ELSE IF Get(customer, "account_age_days", 365) < 7 THEN "STANDARD_FLOW"
        ELSE IF \/ Get(tx, "from_bank", None) \in Range(HIGH_RISK_BANKS)
                \/ Get(tx, "to_bank", None) \in Range(HIGH_RISK_BANKS)
             THEN "LARGE_TRANSACTION"
        ELSE "STANDARD_FLOW"

route_crypto_analysis(s) ==
    LET HasCrypto(rf) == Contains("CRYPTO", rf)
    IN  IF Len(Filter(s.risk_factors, HasCrypto)) >= 2
        THEN "HIGH_RISK_CRYPTO" ELSE "NORMAL_CRYPTO"

route_sanctions_check(s) ==
    IF s.sanction_hits # <<>> THEN "SANCTION_HIT" ELSE "NO_HIT"

route_pep_check(s) ==
    IF s.pep_status = "True" THEN "PEP_FOUND" ELSE "NO_PEP"

\* variant: the SAR threshold is exclusive
route_risk_score_strict(s) ==
    IF s.risk_score > 65 THEN "HIGH_RISK"
    ELSE IF s.risk_score >= 40 THEN "MEDIUM_RISK"
    ELSE "LOW_RISK"

route_risk_score(s) ==
    IF s.risk_score >= 65 THEN "HIGH_RISK"
    ELSE IF s.risk_score >= 40 THEN "MEDIUM_RISK"
    ELSE "LOW_RISK"

\* ------------------------------------------------------------------------
\* Workflow graph construction: _build_workflow of the two modules
\* ------------------------------------------------------------------------
\* variant: the standard flow starts with the geographic assessment
initial_screening_paths_all_assessed ==
    [CRYPTO_TRANSACTION |-> "crypto_analysis",
     LARGE_TRANSACTION |-> "geo_analysis",
     NEW_ACCOUNT |-> "edd",
     HIGH_RISK_BANK |-> "geo_analysis",
     STANDARD_FLOW |-> "geo_analysis"]

initial_screening_paths ==
    [CRYPTO_TRANSACTION |-> "crypto_analysis",
     LARGE_TRANSACTION |-> "geo_analysis",
     NEW_ACCOUNT |-> "edd",
     HIGH_RISK_BANK |-> "geo_analysis",
     STANDARD_FLOW |-> "document_check"]

crypto_analysis_paths ==
    [HIGH_RISK_CRYPTO |-> "edd", NORMAL_CRYPTO |-> "document_check"]

\* variant: a sanction hit is scored before it is reported
sanctions_check_paths_scored ==
    [SANCTION_HIT |-> "score_risk", NO_HIT |-> "pep_check"]

sanctions_check_paths ==
    [SANCTION_HIT |-> "generate_sar", NO_HIT |-> "pep_check"]

\* variant: a PEP is sent back to the document check
pep_check_paths_cyclic ==
    [PEP_FOUND |-> "document_check", NO_PEP |-> "score_risk"]

pep_check_paths ==
    [PEP_FOUND |-> "edd", NO_PEP |-> "score_risk"]

\* variant: a medium score closes the case without review
score_risk_paths_medium_closes ==
    [HIGH_RISK |-> "generate_sar", MEDIUM_RISK |-> END, LOW_RISK |-> END]

score_risk_paths ==
    [HIGH_RISK |-> "generate_sar", MEDIUM_RISK |-> "human_review", LOW_RISK |-> END]

full_conditional_edges ==
    [initial_screening |-> initial_screening_paths,
     crypto_analysis |-> crypto_analysis_paths,
     sanctions_check |-> sanctions_check_paths,
     pep_check |-> pep_check_paths,
     score_risk |-> score_risk_paths]

\* variant: a reviewed case is scored again
full_edges_looping ==
    [geo_analysis |-> "document_check",
     document_check |-> "behavior_check",
     behavior_check |-> "sanctions_check",
     edd |-> "score_risk",
     generate_sar |-> END,
     human_review |-> "score_risk"]

\* variant: enhanced due diligence is followed by the sanctions screening
full_edges_edd_screened ==
    [geo_analysis |-> "document_check",
     document_check |-> "behavior_check",
     behavior_check |-> "sanctions_check",
     edd |-> "sanctions_check",
     generate_sar |-> END,
     human_review |-> END]

full_edges ==
    [geo_analysis |-> "document_check",
     document_check |-> "behavior_check",
     behavior_check |-> "sanctions_check",
     edd |-> "score_risk",
     generate_sar |-> END,
     human_review |-> END]

simple_conditional_edges ==
    [initial_screening |->
        [LARGE_TRANSACTION |-> "geo_analysis",
         HIGH_RISK_BANK |-> "geo_analysis",
         STANDARD_FLOW |-> "sanctions_check"],
     sanctions_check |->
        [SANCTION_HIT |-> "score_risk", NO_HIT |-> "pep_check"],
     pep_check |->
        [PEP_FOUND |-> "score_risk", NO_PEP |-> "score_risk"],
     score_risk |->
        [HIGH_RISK |-> END, MEDIUM_RISK |-> "human_review", LOW_RISK |-> END]]

simple_edges ==
    [geo_analysis |-> "sanctions_check",
     human_review |-> END]

conditional_edges(g) ==
    IF g = "full" THEN full_conditional_edges ELSE simple_conditional_edges

edges(g) == IF g = "full" THEN full_edges ELSE simple_edges

\* the routing function add_conditional_edges attaches to node n
route(g, n, s) ==
    CASE n = "initial_screening" ->
            IF g = "full" THEN route_initial_screening(s)
            ELSE route_initial_screening_simple(s)
      [] n = "crypto_analysis" -> route_crypto_analysis(s)
      [] n = "sanctions_check" -> route_sanctions_check(s)
      [] n = "pep_check" -> route_pep_check(s)
      [] n = "score_risk" -> route_risk_score(s)

\* the node the compiled graph runs after node n returned state s; a label
\* without an entry in the path map raises
next_node(g, n, s) ==
    IF n \in DOMAIN conditional_edges(g)
    THEN LET label == route(g, n, s)
             path_map == conditional_edges(g)[n]
         IN  IF label \in DOMAIN path_map THEN path_map[label] ELSE ABORTED
    ELSE edges(g)[n]

\* ------------------------------------------------------------------------
\* The parts of the program that are at rest while a case runs
\* ------------------------------------------------------------------------
\* the two callers of the global batch_processor
RunIds == {1, 2}

\* a call of process_with_progress_tracking that has not been made yet
IdleRun == [pc |-> "idle", rows |-> 0, idx |-> 0, results |-> <<>>,
            summary |-> EmptyDict]

\* AMLBatchProcessor.__init__: empty results and zeroed statistics
BatchIdle ==
    /\ processing_stats = [total_processed |-> 0, escalated_cases |-> 0,
                           sar_cases |-> 0, pending_approvals |-> 0, errors |-> 0]
    /\ method = None
    /\ rows = 0
    /\ idx = 0
    /\ results = <<>>
    /\ bpc = "idle"
    /\ stats_before = processing_stats
    /\ failed = {}
    /\ runs = [r \in RunIds |-> IdleRun]

\* no detector or calculator has been called
NoCall == args = EmptyDict /\ returned = EmptyDict

\* ------------------------------------------------------------------------
\* Execution: workflow.invoke(initial_state) of run_analysis
\* ------------------------------------------------------------------------
\* cap on the number of stage executions explored in one case
MaxPath == 12

Graphs == {"full", "simple"}

IDLE == "idle"

\* the module is imported and its workflow compiled; no case is running
Init ==
    /\ graph \in Graphs
    /\ raw = EmptyDict
    /\ state = initial_state(EmptyDict, EmptyDict)
    /\ local = state
    /\ node = IDLE
    /\ pc = "ready"
    /\ executed = <<>>
    /\ INVESTIGATION_RESULTS = <<>>
    /\ CHAT_THREADS = <<>>
    /\ BatchIdle
    /\ NoCall

\* run_analysis(transaction, customer, workflow_instance) up to the entry
\* point of the graph
run_analysis ==
    /\ node = IDLE
    /\ \E transaction \in RawTransactions, customer \in Customers :
          /\ raw' = transaction
          /\ state' = initial_state(transaction, customer)
    /\ local' = state'
    /\ node' = "initial_screening"
    /\ UNCHANGED <<graph, pc, executed, registry_vars, batch_vars, call_vars>>

\* node n is the next one the graph runs
Ready(n) == node = n /\ pc = "ready" /\ Len(executed) < MaxPath

\* node n is suspended in its analyzer call
Awaiting(n) == node = n /\ pc = "await"

\* the node returns s: the graph stores it and follows the edge
Commit(s) ==
    /\ state' = s
    /\ local' = state'
    /\ executed' = Append(executed, node)
    /\ node' = next_node(graph, node, state')
    /\ pc' = "ready"
    /\ UNCHANGED <<graph, raw, registry_vars, batch_vars, call_vars>>

\* the node suspends in chain.ainvoke with local state s
Await(s) ==
    /\ local' = s
    /\ pc' = "await"
    /\ UNCHANGED <<graph, raw, state, node, executed, registry_vars, batch_vars,
                   call_vars>>

\* the node raises: invoke and run_analysis propagate the exception
Raise ==
    /\ node' = ABORTED
    /\ pc' = "ready"
    /\ UNCHANGED <<graph, raw, state, local, executed, registry_vars, batch_vars,
                   call_vars>>

initial_screening ==
    /\ Ready("initial_screening")
    /\ Commit(update_path(state, "start"))

crypto_analysis ==
    /\ Ready("crypto_analysis")
    /\ LET s == crypto_risk_analysis_begin(state)
       IN  IF Get(s.transaction, "asset_type", None) # "CRYPTO" THEN Commit(s)
           ELSE IF crypto_risk_analysis_raises(s) THEN Raise
           ELSE Await(s)

crypto_analysis_reply ==
    /\ Awaiting("crypto_analysis")
    /\ \E llm_risks \in LLMReplies : Commit(crypto_risk_analysis_end(local, llm_risks))

geo_analysis ==
    /\ Ready("geo_analysis")
    /\ Commit(geographic_risk_assessment(state))

document_check ==
    /\ Ready("document_check")
    /\ LET s == document_analysis_begin(state)
       IN  IF s.documents = <<>> THEN Commit(document_analysis_missing(s))
           ELSE Await(s)

document_check_reply ==
    /\ Awaiting("document_check")
    /\ \E risk_codes \in LLMReplies : Commit(document_analysis_end(local, risk_codes))

behavior_check ==
    /\ Ready("behavior_check")
    /\ LET s == behavioral_analysis_begin(state)
       IN  IF behavioral_analysis_raises(s) THEN Raise ELSE Await(s)

behavior_check_reply ==
    /\ Awaiting("behavior_check")
    /\ \E codes \in LLMReplies : Commit(behavioral_analysis_end(local, codes))

sanctions_check ==
    /\ Ready("sanctions_check")
    /\ IF graph = "full"
       THEN IF sanctions_raises(sanction_parties(state)) THEN Raise
            ELSE Commit(sanctions_screening(state))
       ELSE Commit(sanctions_screening_simple(state))

pep_check ==
    /\ Ready("pep_check")
    /\ IF graph = "full" THEN Commit(pep_screening(state))
       ELSE Commit(pep_screening_simple(state))

edd ==
    /\ Ready("edd")
    /\ Await(enhanced_due_diligence_begin(state))

edd_reply ==
    /\ Awaiting("edd")
    /\ \E critical_risks \in LLMReplies :
          Commit(enhanced_due_diligence_end(local, critical_risks))

score_risk ==
    /\ Ready("score_risk")
    /\ Commit(risk_scoring(state))

generate_sar ==
    /\ Ready("generate_sar")
    /\ Await(generate_sar_begin(state))

\* the case id is drawn by generate_case_id() and stored when the SAR text
\* has arrived
generate_sar_reply ==
    /\ Awaiting("generate_sar")
    /\ \E case_id \in CaseIds : Commit(generate_sar_end(local, case_id))

human_review_node ==
    /\ Ready("human_review")
    /\ Commit(human_review(state))

\* the analyzer call fails or times out: no node catches the exception
analyzer_failure ==
    /\ pc = "await"
    /\ Raise

Next ==
    \/ run_analysis
    \/ initial_screening
    \/ crypto_analysis
    \/ crypto_analysis_reply
    \/ geo_analysis
    \/ document_check
    \/ document_check_reply
    \/ behavior_check
    \/ behavior_check_reply
    \/ sanctions_check
    \/ pep_check
    \/ edd
    \/ edd_reply
    \/ score_risk
    \/ generate_sar
    \/ generate_sar_reply
    \/ human_review_node
    \/ analyzer_failure

Spec == Init /\ [][Next]_vars

\* the graph runner always runs the next node, and an analyzer call that
\* is pending returns or fails
FairSpec == Spec /\ WF_vars(Next)

TypeOK ==
    /\ graph \in Graphs
    /\ node \in {IDLE, "initial_screening", "crypto_analysis", "geo_analysis",
                 "document_check", "behavior_check", "sanctions_check",
                 "pep_check", "edd", "score_risk", "generate_sar",
                 "human_review", END, ABORTED}
    /\ pc \in {"ready", "await"}
    /\ state.risk_score \in 0..100


\* ------------------------------------------------------------------------
\* Output formatting
\* ------------------------------------------------------------------------
_determine_risk_level(score) ==
    IF score >= 80 THEN "CRITICAL"
    ELSE IF score >= 65 THEN "HIGH"
    ELSE IF score >= 40 THEN "MEDIUM"
    ELSE "LOW"

\* variant: only a score of 80 or more is predicted as laundering
model_performance_from_80(result) ==
    LET predicted_ml == IF result.risk_score >= 80 THEN 1 ELSE 0
    IN  [ground_truth |-> result.ground_truth_label[1],
         predicted |-> predicted_ml,
         correct |-> predicted_ml = result.ground_truth_label[1]]

\* the model_performance entry of a labelled result
model_performance(result) ==
    LET predicted_ml == IF result.risk_score >= 65 THEN 1 ELSE 0
    IN  [ground_truth |-> result.ground_truth_label[1],
         predicted |-> predicted_ml,
         correct |-> predicted_ml = result.ground_truth_label[1]]

format_analysis_output(result) ==
    [analysis_report |->
        [risk_score |-> result.risk_score,
         risk_level |-> _determine_risk_level(result.risk_score),
         decision_path |-> result.decision_path,
         workflow_complete |-> TRUE],
     findings |->
        [alerts |-> Range(result.alerts),
         risk_factors |-> result.risk_factors,
         sanctions_hits |-> result.sanction_hits,
         pep_status |-> result.pep_status,
         structuring_detected |-> result.structuring_detected,
         smurfing_detected |-> result.smurfing_detected],
     reporting |->
        [status |-> result.reporting_status,
         case_id |-> result.case_id,
         review_status |-> result.review_status]]
    @@ (IF result.ground_truth_label # <<>>
        THEN "model_performance" :> model_performance(result)
        ELSE EmptyDict)

\* ------------------------------------------------------------------------
\* The registry: INVESTIGATION_RESULTS, CHAT_THREADS and the two functions
\* the package exports.  A dict is kept as the list of its items in
\* insertion order; a thread is known by its position in CHAT_THREADS (a
\* fresh uuid4 per thread) and its timestamps are left out.
\* ------------------------------------------------------------------------
\* most threads explored, and most results or exchanges held by one thread
MaxThreads == 1

MaxThreadItems == 1

\* thread_id = None
NoThread == 0

Prompts == {"Which cases are high risk?"}

\* d[key] = value
SetItem(d, key, value) ==
    IF \E i \in 1..Len(d) : d[i].key = key
    THEN [i \in 1..Len(d) |->
            IF d[i].key = key THEN [key |-> key, value |-> value] ELSE d[i]]
    ELSE Append(d, [key |-> key, value |-> value])

Keys(d) == {d[i].key : i \in 1..Len(d)}

\* list(d.values())
Values(d) == [i \in 1..Len(d) |-> d[i].value]

create_chat_thread(investigation_results) ==
    [investigation_results |-> investigation_results, chat_history |-> <<>>]

add_investigation_to_thread(threads, thread_id, investigation_result) ==
    IF thread_id \in 1..Len(threads)
    THEN [threads EXCEPT ![thread_id].investigation_results =
                            Append(@, investigation_result)]
    ELSE threads

_calculate_investigation_statistics(investigations) ==
    LET level(i) == investigations[i].analysis_report.risk_level
        status(i) == investigations[i].reporting.status
        count(test(_)) == Cardinality({i \in 1..Len(investigations) : test(i)})
    IN  [total |-> Len(investigations),
         high_risk |-> count(LAMBDA i : level(i) \in {"HIGH", "CRITICAL"}),
         medium_risk |-> count(LAMBDA i : level(i) = "MEDIUM"),
         low_risk |-> count(LAMBDA i : level(i) \notin {"HIGH", "CRITICAL", "MEDIUM"}),
         sar_filed |-> count(LAMBDA i : status(i) = "SAR_FILED"),
         human_review |-> count(LAMBDA i : status(i) = "HUMAN_REVIEW")]

\* the thread after chat_with_investigations has answered user_query
chat_with_investigations(thread, user_query) ==
    [thread EXCEPT !.chat_history =
        Append(Append(@, [human |-> user_query]), [ai |-> user_query])]

\* the cases the registry is exercised with
AnalysedTransactions ==
    { t \in CryptoRecords :
        /\ t["amount"] = 9600
        /\ t["counterparty_id"] = "acme_corp"
        /\ t["documents"] = <<>>
        /\ "crypto_details" \in DOMAIN t
        /\ t["crypto_details"].mixer_used }
    \cup
    { t \in FiatRecords :
        /\ t["amount"] = 250000
        /\ t["country"] = "IR"
        /\ t["intermediate_countries"] = <<"KY", "RU">>
        /\ "counterparty_id" \notin DOMAIN t
        /\ t["documents"] = <<"invoice.pdf">> }

AnalysedCustomers ==
    { c \in Customers :
        /\ c.name \in {"Alice Smith", "Minister Bob"}
        /\ c.account_age_days = 30
        /\ c.transaction_history = <<>> }

\* the thread ids a caller may pass: None, a thread that exists, or an id
\* that is not in CHAT_THREADS
ThreadIds == 0..(Len(CHAT_THREADS) + 1)

\* analyze_transaction(transaction, customer, thread_id) up to the entry
\* point of the graph
analyze_transaction ==
    /\ node = IDLE
    /\ \E transaction \in AnalysedTransactions, customer \in AnalysedCustomers,
          thread_id \in ThreadIds :
          /\ thread_id \in 1..Len(CHAT_THREADS) =>
                Len(CHAT_THREADS[thread_id].investigation_results) < MaxThreadItems
          /\ raw' = transaction
          /\ state' = initial_state(transaction, customer)
          /\ args' = [function |-> "analyze_transaction", thread_id |-> thread_id]
    /\ local' = state'
    /\ node' = "initial_screening"
    /\ pc' = "ready"
    /\ executed' = <<>>
    /\ returned' = EmptyDict
    /\ UNCHANGED <<graph, registry_vars, batch_vars>>

\* run_analysis has returned: the result joins the caller's thread and is
\* stored under its case_id
analyze_transaction_returns ==
    /\ node = END
    /\ Get(args, "function", None) = "analyze_transaction"
    /\ LET result == format_analysis_output(state)
           case_id == result.reporting.case_id
       IN  /\ CHAT_THREADS' =
                 IF args.thread_id # NoThread
                 THEN add_investigation_to_thread(CHAT_THREADS, args.thread_id, result)
                 ELSE CHAT_THREADS
           /\ INVESTIGATION_RESULTS' =
                 IF case_id # None
                 THEN SetItem(INVESTIGATION_RESULTS, case_id, result)
                 ELSE INVESTIGATION_RESULTS
           /\ returned' = result
    /\ node' = IDLE
    /\ UNCHANGED <<graph, raw, state, pc, local, executed, batch_vars, args>>

\* run_analysis has raised: analyze_transaction stores nothing
analyze_transaction_raises ==
    /\ node = ABORTED
    /\ Get(args, "function", None) = "analyze_transaction"
    /\ node' = IDLE
    /\ returned' = [raised |-> TRUE]
    /\ UNCHANGED <<graph, raw, state, pc, local, executed, registry_vars, batch_vars,
                   args>>

\* query_investigations(prompt, thread_id)
query_investigations ==
    /\ node = IDLE
    /\ \E prompt \in Prompts, given \in ThreadIds :
          LET create == given = NoThread \/ given \notin 1..Len(CHAT_THREADS)
              threads == IF create
                         THEN Append(CHAT_THREADS,
                                     create_chat_thread(Values(INVESTIGATION_RESULTS)))
                         ELSE CHAT_THREADS
              thread_id == IF create THEN Len(threads) ELSE given
              thread == chat_with_investigations(threads[thread_id], prompt)
          IN  /\ Len(threads) <= MaxThreads
              /\ Len(thread.chat_history) <= 2 * MaxThreadItems
              /\ CHAT_THREADS' = [threads EXCEPT ![thread_id] = thread]
              /\ args' = [function |-> "query_investigations", thread_id |-> given]
              /\ returned' =
                    [thread_id |-> thread_id,
                     chat_history |-> thread.chat_history,
                     statistics |->
                        _calculate_investigation_statistics(thread.investigation_results)]
    /\ UNCHANGED <<graph, raw, state, node, pc, local, executed, INVESTIGATION_RESULTS,
                   batch_vars>>

\* any sequence of analyze_transaction calls
RegistryNext ==
    \/ analyze_transaction
    \/ analyze_transaction_returns
    \/ analyze_transaction_raises
    \/ initial_screening
    \/ crypto_analysis
    \/ crypto_analysis_reply
    \/ geo_analysis
    \/ document_check
    \/ document_check_reply
    \/ behavior_check
    \/ behavior_check_reply
    \/ sanctions_check
    \/ pep_check
    \/ edd
    \/ edd_reply
    \/ score_risk
    \/ generate_sar
    \/ generate_sar_reply
    \/ human_review_node
    \/ analyzer_failure

RegistrySpec == Init /\ [][RegistryNext]_vars

\* app.agents: production_workflow, analyze_transaction and
\* query_investigations of production_workflow_simple
ExportedInit == Init /\ graph = "simple"

ExportedNext ==
    \/ analyze_transaction
    \/ analyze_transaction_returns
    \/ query_investigations
    \/ initial_screening
    \/ geo_analysis
    \/ sanctions_check
    \/ pep_check
    \/ score_risk
    \/ human_review_node

ExportedSpec == ExportedInit /\ [][ExportedNext]_vars

\* ------------------------------------------------------------------------
\* Batch processing: AMLBatchProcessor
\* ------------------------------------------------------------------------
\* largest batch explored
MaxRows == 3

\* cap on the cases one processor tallies over its batches
MaxTallied == 4

\* the Is Laundering column of the rows of a batch
RowBatches ==
    UNION {[1..n -> Labels] : n \in 1..MaxRows}

\* what run_aml_investigation returns for a case (app.agents.aml_workflow is
\* not among the files): the keys the batch processor reads
InvestigationResults ==
    { [risk_level |-> "Low", reporting_status |-> None, approval_status |-> None],
      [risk_level |-> "Medium", reporting_status |-> "HUMAN_REVIEW",
       approval_status |-> "pending"],
      [risk_level |-> "High", reporting_status |-> "SAR_FILED",
       approval_status |-> None],
      [risk_level |-> "Critical", reporting_status |-> "SAR_FILED",
       approval_status |-> "pending"] }

\* variant: a result is counted twice
_update_stats_twice(stats, res) ==
    [stats EXCEPT !.total_processed = @ + 2]

_update_stats(stats, res) ==
    [stats EXCEPT
        !.total_processed = @ + 1,
        !.escalated_cases =
            IF res.risk_level \in {"High", "Critical"} THEN @ + 1 ELSE @,
        !.sar_cases = IF res.reporting_status = "SAR_FILED" THEN @ + 1 ELSE @,
        !.pending_approvals = IF res.approval_status = "pending" THEN @ + 1 ELSE @]

\* the result _process_hi_trans_batch keeps for row i
hi_trans_result(res, i) ==
    res @@ [row |-> i,
            ground_truth |-> rows[i],
            prediction |-> IF res.risk_level \in {"High", "Critical"} THEN 1 ELSE 0]

\* the result process_operational_alerts keeps for alert i
alert_result(res, i) ==
    res @@ [row |-> i,
            summary |-> [alert_id |-> i,
                         risk_level |-> res.risk_level,
                         escalation_required |-> res.reporting_status = "SAR_FILED",
                         sar_filed |-> res.reporting_status = "SAR_FILED",
                         approval_status |-> res.approval_status]]

Tallied == processing_stats.total_processed + processing_stats.errors

\* a batch of the given method starts on a loaded frame
StartBatch(m) ==
    /\ bpc \in {"idle", "done"}
    /\ \E frame \in RowBatches :
          /\ Tallied + Len(frame) <= MaxTallied
          /\ rows' = frame
    /\ method' = m
    /\ idx' = 1
    /\ results' = <<>>
    /\ stats_before' = processing_stats
    /\ failed' = {}
    /\ bpc' = "row"
    /\ UNCHANGED <<processing_stats, runs, case_vars, call_vars>>

_process_hi_trans_batch == StartBatch("hi_trans")

process_operational_alerts == StartBatch("alerts")

\* the loop is at row idx of the method's frame
AtRow(m) == bpc = "row" /\ method = m /\ idx <= Len(rows)

\* the except clause of the loop body: tally the error, go to the next row
Except ==
    /\ processing_stats' = [processing_stats EXCEPT !.errors = @ + 1]
    /\ failed' = failed \cup {idx}
    /\ idx' = idx + 1
    /\ bpc' = "row"
    /\ UNCHANGED <<method, rows, results, stats_before, runs, case_vars, call_vars>>

\* the body suspends in run_aml_investigation
AwaitInvestigation ==
    /\ bpc' = "await"
    /\ UNCHANGED <<processing_stats, method, rows, idx, results, stats_before,
                   failed, runs, case_vars, call_vars>>

\* make_txn_event raises on the row or the body reaches the investigation
hi_trans_row ==
    /\ AtRow("hi_trans")
    /\ (Except \/ AwaitInvestigation)

\* the alert's data cannot be loaded (an exception, or a part is missing and
\* the body tallies the error and continues) or the body reaches the
\* investigation
alerts_row ==
    /\ AtRow("alerts")
    /\ (Except \/ AwaitInvestigation)

\* run_aml_investigation returns: the result is counted and kept
investigation_returns ==
    /\ bpc = "await"
    /\ \E res \in InvestigationResults :
          /\ processing_stats' = _update_stats(processing_stats, res)
          /\ results' = Append(results, IF method = "hi_trans"
                                        THEN hi_trans_result(res, idx)
                                        ELSE alert_result(res, idx))
    /\ idx' = idx + 1
    /\ bpc' = "row"
    /\ UNCHANGED <<method, rows, stats_before, failed, runs, case_vars, call_vars>>

\* run_aml_investigation raises or times out
investigation_raises ==
    /\ bpc = "await"
    /\ Except

\* the loop is over: the method returns results
batch_returns ==
    /\ bpc = "row"
    /\ idx > Len(rows)
    /\ bpc' = "done"
    /\ UNCHANGED <<processing_stats, method, rows, idx, results, stats_before,
                   failed, runs, case_vars, call_vars>>

BatchNext ==
    \/ _process_hi_trans_batch
    \/ process_operational_alerts
    \/ hi_trans_row
    \/ alerts_row
    \/ investigation_returns
    \/ investigation_raises
    \/ batch_returns

BatchSpec == Init /\ [][BatchNext]_vars

\* ------------------------------------------------------------------------
\* Accuracy metrics: AMLMetricsCalculator.calculate_basic_metrics and
\* AMLBatchProcessor.calculate_accuracy_metrics.  A float that is a quotient
\* of counts is the pair <<numerator, denominator>>.
\* ------------------------------------------------------------------------
\* longest list of labels explored
MaxSamples == 6

\* a / b if b > 0 else 0
Quotient(a, b) == IF b > 0 THEN <<a, b>> ELSE <<0, 1>>

\* two quotients are the same number
SameNumber(q, r) == q[1] * r[2] = r[1] * q[2]

\* sum(1 for p, gt in zip(predictions, ground_truth) if p == a and gt == b)
CountPairs(predictions, ground_truth, a, b) ==
    Cardinality({i \in 1..Min(Len(predictions), Len(ground_truth)) :
                    predictions[i] = a /\ ground_truth[i] = b})

\* sklearn.metrics.accuracy_score
accuracy_score(y_true, y_pred) ==
    Quotient(Cardinality({i \in 1..Len(y_true) : y_true[i] = y_pred[i]}), Len(y_true))

\* sklearn.metrics.precision_score(..., zero_division=0), positive label 1
precision_score(y_true, y_pred) ==
    Quotient(CountPairs(y_pred, y_true, 1, 1),
             CountPairs(y_pred, y_true, 1, 1) + CountPairs(y_pred, y_true, 1, 0))

\* sklearn.metrics.recall_score(..., zero_division=0), positive label 1
recall_score(y_true, y_pred) ==
    Quotient(CountPairs(y_pred, y_true, 1, 1),
             CountPairs(y_pred, y_true, 1, 1) + CountPairs(y_pred, y_true, 0, 1))

\* 2 * (p * r) / (p + r) if (p + r) > 0 else 0
HarmonicMean(q, r) ==
    Quotient(2 * q[1] * r[1], q[1] * r[2] + r[1] * q[2])

\* sklearn.metrics.confusion_matrix(y_true, y_pred).ravel(): one row and one
\* column for every label that occurs in y_true or y_pred, in sorted order
confusion_matrix(y_true, y_pred) ==
    LET present == Range(y_true) \cup Range(y_pred)
    IN  IF present = {0, 1}
        THEN <<CountPairs(y_pred, y_true, 0, 0), CountPairs(y_pred, y_true, 1, 0),
               CountPairs(y_pred, y_true, 0, 1), CountPairs(y_pred, y_true, 1, 1)>>
        ELSE <<Len(y_true)>>

calculate_basic_metrics(ground_truth, predictions) ==
    LET cm == confusion_matrix(ground_truth, predictions)
        cells == IF Len(cm) = 4 THEN cm ELSE <<0, 0, 0, 0>>
        tn == cells[1]
        fp == cells[2]
        fn == cells[3]
        tp == cells[4]
        precision == precision_score(ground_truth, predictions)
        recall == recall_score(ground_truth, predictions)
        specificity == Quotient(tn, tn + fp)
        precision_neg == Quotient(tn, tn + fn)
    IN  [accuracy |-> accuracy_score(ground_truth, predictions),
         precision |-> precision,
         recall |-> recall,
         f1_score |-> HarmonicMean(precision, recall),
         specificity |-> specificity,
         sensitivity |-> recall,
         precision_negative |-> precision_neg,
         f1_score_negative |-> HarmonicMean(precision_neg, specificity),
         true_positives |-> tp,
         false_positives |-> fp,
         true_negatives |-> tn,
         false_negatives |-> fn,
         total_samples |-> Len(ground_truth)]

\* calculate_accuracy_metrics on results that all carry ground_truth and
\* prediction
calculate_accuracy_metrics(ground_truth, predictions) ==
    LET true_positives == CountPairs(predictions, ground_truth, 1, 1)
        false_positives == CountPairs(predictions, ground_truth, 1, 0)
        true_negatives == CountPairs(predictions, ground_truth, 0, 0)
        false_negatives == CountPairs(predictions, ground_truth, 0, 1)
        precision == Quotient(true_positives, true_positives + false_positives)
        recall == Quotient(true_positives, true_positives + false_negatives)
    IN  [accuracy |-> Quotient(true_positives + true_negatives, Len(ground_truth)),
         precision |-> precision,
         recall |-> recall,
         f1_score |-> HarmonicMean(precision, recall),
         true_positives |-> true_positives,
         false_positives |-> false_positives,
         true_negatives |-> true_negatives,
         false_negatives |-> false_negatives,
         total_samples |-> Len(ground_truth)]

\* equal-length lists of binary labels and predictions
LabelledPredictions ==
    UNION {[ground_truth : [1..n -> Labels], predictions : [1..n -> Labels]] :
              n \in 1..MaxSamples}

\* a call of AMLMetricsCalculator.calculate_basic_metrics
basic_metrics_call ==
    /\ args = EmptyDict
    /\ \E input \in LabelledPredictions :
          /\ args' = input @@ [function |-> "calculate_basic_metrics"]
          /\ returned' = calculate_basic_metrics(input.ground_truth, input.predictions)
    /\ UNCHANGED <<case_vars, batch_vars>>

\* a call of AMLBatchProcessor.calculate_accuracy_metrics
accuracy_metrics_call ==
    /\ args = EmptyDict
    /\ \E input \in LabelledPredictions :
          /\ args' = input @@ [function |-> "calculate_accuracy_metrics"]
          /\ returned' = calculate_accuracy_metrics(input.ground_truth, input.predictions)
    /\ UNCHANGED <<case_vars, batch_vars>>

MetricsNext == basic_metrics_call \/ accuracy_metrics_call

MetricsSpec == Init /\ [][MetricsNext]_vars

\* ------------------------------------------------------------------------
\* Two background tasks on the global batch_processor: each awaits
\* process_with_progress_tracking("hi_trans"); the event loop switches
\* between them where one awaits run_aml_investigation.  The rows carry
\* Is Laundering = 0.
\* ------------------------------------------------------------------------
\* largest number of rows one of the two runs processes
MaxSharedRows == 2

\* the result _process_hi_trans_batch keeps for a row
tracked_result(res) ==
    res @@ [ground_truth |-> 0,
            prediction |-> IF res.risk_level \in {"High", "Critical"} THEN 1 ELSE 0]

\* create_batch_summary(results, processing_time) with the statistics of the
\* processor as they are (the pending approvals are those of
\* approval_workflow_manager, which is not among the files)
create_batch_summary(run_results, stats) ==
    [total_transactions |-> Len(run_results),
     processed_transactions |-> stats.total_processed,
     escalated_cases |->
        Len(Filter(run_results, LAMBDA r : r.risk_level \in {"High", "Critical"})),
     sar_cases |-> Len(Filter(run_results, LAMBDA r : r.reporting_status = "SAR_FILED")),
     accuracy_metrics |->
        IF run_results = <<>> THEN EmptyDict
        ELSE calculate_accuracy_metrics(
                 [i \in 1..Len(run_results) |-> run_results[i].ground_truth],
                 [i \in 1..Len(run_results) |-> run_results[i].prediction])]

\* run r changes to new, nothing else of the runs does
RunBecomes(r, new) ==
    /\ runs' = [runs EXCEPT ![r] = new]
    /\ UNCHANGED <<method, rows, idx, results, bpc, stats_before, failed,
                   case_vars, call_vars>>

\* _run_batch_processing_background calls process_with_progress_tracking,
\* which loads the rows and enters the loop of _process_hi_trans_batch
process_with_progress_tracking ==
    \E r \in RunIds : \E n \in 1..MaxSharedRows :
        /\ runs[r].pc = "idle"
        /\ RunBecomes(r, [runs[r] EXCEPT !.pc = "row", !.rows = n])
        /\ UNCHANGED processing_stats

\* the loop body of a run up to its await: make_txn_event raises and the
\* error is tallied, or the body suspends in run_aml_investigation
tracked_row ==
    \E r \in RunIds :
        /\ runs[r].pc = "row"
        /\ runs[r].idx < runs[r].rows
        /\ \/ /\ processing_stats' = [processing_stats EXCEPT !.errors = @ + 1]
              /\ RunBecomes(r, [runs[r] EXCEPT !.idx = @ + 1])
           \/ /\ RunBecomes(r, [runs[r] EXCEPT !.pc = "await"])
              /\ UNCHANGED processing_stats

\* run_aml_investigation returns to a run: up to the next await the run
\* completes the result, updates the statistics and keeps the result
tracked_investigation_returns ==
    \E r \in RunIds : \E res \in InvestigationResults :
        /\ runs[r].pc = "await"
        /\ processing_stats' = _update_stats(processing_stats, tracked_result(res))
        /\ RunBecomes(r, [runs[r] EXCEPT !.pc = "row", !.idx = @ + 1,
                                         !.results = Append(@, tracked_result(res))])

\* run_aml_investigation raises in a run: the except clause tallies the error
tracked_investigation_raises ==
    \E r \in RunIds :
        /\ runs[r].pc = "await"
        /\ processing_stats' = [processing_stats EXCEPT !.errors = @ + 1]
        /\ RunBecomes(r, [runs[r] EXCEPT !.pc = "row", !.idx = @ + 1])

\* the loop of a run is over: process_with_progress_tracking builds the
\* summary and returns
tracked_summary ==
    \E r \in RunIds :
        /\ runs[r].pc = "row"
        /\ runs[r].idx = runs[r].rows
        /\ RunBecomes(r, [runs[r] EXCEPT
                             !.pc = "done",
                             !.summary = create_batch_summary(runs[r].results,
                                                              processing_stats)])
        /\ UNCHANGED processing_stats

SharedNext ==
    \/ process_with_progress_tracking
    \/ tracked_row
    \/ tracked_investigation_returns
    \/ tracked_investigation_raises
    \/ tracked_summary

SharedSpec == Init /\ [][SharedNext]_vars

\* ------------------------------------------------------------------------
\* Pattern detection tools: detect_structuring_patterns and
\* detect_smurfing_patterns.  A date is the hour it falls in, counted from
\* the first hour of the data; a score is held in tenths.
\* ------------------------------------------------------------------------
\* longest list of related transactions explored
MaxRelated == 3

\* default of the parameter reporting_threshold
reporting_threshold == 10000

\* default of the parameter time_window_hours
time_window_hours == 24

min_coordinated_accounts == 3

\* in tenths
_calculate_structuring_score(current_amount, total_amount, suspicious_count, threshold) ==
    Min(10, (IF current_amount * 100 >= threshold * 95 THEN 3 ELSE 0)
            + (IF suspicious_count > 0 THEN Min(4, suspicious_count) ELSE 0)
            + (IF total_amount >= threshold THEN 3 ELSE 0))

RECURSIVE SumAmounts(_)
SumAmounts(txs) ==
    IF txs = <<>> THEN 0 ELSE txs[1].amount + SumAmounts(Tail(txs))

detect_structuring_patterns(transaction_data, related_transactions) ==
    LET current_amount == transaction_data.amount
        suspicious_transactions ==
            Filter(related_transactions,
                   LAMBDA tx : /\ tx.amount < reporting_threshold
                               /\ tx.amount * 100 >= reporting_threshold * 95)
        total_amount == current_amount + SumAmounts(suspicious_transactions)
        structuring_score ==
            _calculate_structuring_score(current_amount, total_amount,
                                         Len(suspicious_transactions), reporting_threshold)
    IN  [detected |-> structuring_score > 7,
         structuring_score |-> structuring_score,
         current_transaction_suspicious |-> current_amount * 100 >= reporting_threshold * 95,
         suspicious_transactions |-> suspicious_transactions,
         total_amount |-> total_amount,
         confidence_level |-> IF structuring_score > 8 THEN "high"
                              ELSE IF structuring_score > 5 THEN "medium" ELSE "low"]

\* sorted(transactions, key=lambda x: x.get("transaction_date", "")): stable
RECURSIVE SortedByDate(_)
SortedByDate(txs) ==
    IF txs = <<>> THEN <<>>
    ELSE LET rest == SortedByDate(SubSeq(txs, 1, Len(txs) - 1))
             tx == txs[Len(txs)]
             before == Filter(rest, LAMBDA t : t.transaction_date <= tx.transaction_date)
             after == Filter(rest, LAMBDA t : t.transaction_date > tx.transaction_date)
         IN  before \o <<tx>> \o after

_within_time_window(tx1, tx2, window) ==
    /\ tx1.transaction_date # NoDate
    /\ tx2.transaction_date # NoDate
    /\ tx2.transaction_date - tx1.transaction_date <= window
    /\ tx1.transaction_date - tx2.transaction_date <= window

\* variant: a transaction is compared with the last one of the group
RECURSIVE GroupFrom_chained(_, _, _, _, _)
GroupFrom_chained(sorted, i, groups, current_group, window) ==
    IF i > Len(sorted)
    THEN IF current_group # <<>> THEN Append(groups, current_group) ELSE groups
    ELSE IF current_group = <<>>
         THEN GroupFrom_chained(sorted, i + 1, groups, <<sorted[i]>>, window)
         ELSE IF _within_time_window(current_group[Len(current_group)], sorted[i], window)
              THEN GroupFrom_chained(sorted, i + 1, groups,
                                     Append(current_group, sorted[i]), window)
              ELSE GroupFrom_chained(sorted, i + 1, Append(groups, current_group),
                                     <<sorted[i]>>, window)

\* the loop of _group_by_time_window from the i-th sorted transaction on
RECURSIVE GroupFrom(_, _, _, _, _)
GroupFrom(sorted, i, groups, current_group, window) ==
    IF i > Len(sorted)
    THEN IF current_group # <<>> THEN Append(groups, current_group) ELSE groups
    ELSE IF current_group = <<>>
         THEN GroupFrom(sorted, i + 1, groups, <<sorted[i]>>, window)
         ELSE IF _within_time_window(current_group[1], sorted[i], window)
              THEN GroupFrom(sorted, i + 1, groups, Append(current_group, sorted[i]), window)
              ELSE GroupFrom(sorted, i + 1, Append(groups, current_group), <<sorted[i]>>, window)

_group_by_time_window(transactions, window) ==
    GroupFrom(SortedByDate(transactions), 1, <<>>, <<>>, window)

RECURSIVE SumSquares(_)
SumSquares(txs) ==
    IF txs = <<>> THEN 0 ELSE txs[1].amount * txs[1].amount + SumSquares(Tail(txs))

\* np.var(amounts) < limit, the variance being sum(x^2)/n - (sum(x)/n)^2
VarianceBelow(txs, limit) ==
    Len(txs) * SumSquares(txs) - SumAmounts(txs) * SumAmounts(txs)
        < limit * Len(txs) * Len(txs)

\* variant: a shared recipient weighs no more than similar amounts
_calculate_coordination_score_flat(transactions) ==
    IF Len(transactions) < 2 THEN 0
    ELSE Min(10, 3 + (IF VarianceBelow(transactions, 1000) THEN 3 ELSE 0)
                   + (IF Len(transactions) >= 3 THEN 4 ELSE 0))

\* in tenths
_calculate_coordination_score(transactions) ==
    IF Len(transactions) < 2 THEN 0
    ELSE Min(10, (IF Cardinality({tx.counterparty_id : tx \in Range(transactions)}) = 1
                  THEN 5 ELSE 0)
                 + (IF VarianceBelow(transactions, 1000) THEN 3 ELSE 0)
                 + (IF Len(transactions) >= 3 THEN 2 ELSE 0))

RECURSIVE SumScores(_)
SumScores(groups) ==
    IF groups = <<>> THEN 0 ELSE groups[1].coordination_score + SumScores(Tail(groups))

\* (avg_coordination * 0.7) + (group_factor * 0.3) as a quotient:
\* avg = SumScores / (10 * k) and group_factor = min(3, k) / 3
_calculate_smurfing_score(coordinated_groups) ==
    LET k == Len(coordinated_groups)
    IN  IF k = 0 THEN <<0, 1>>
        ELSE <<7 * SumScores(coordinated_groups) + 10 * Min(3, k) * k, 100 * k>>

\* q > tenths / 10
ScoreAbove(q, tenths) == q[1] * 10 > tenths * q[2]

detect_smurfing_patterns(transaction_data, related_transactions) ==
    LET time_groups == _group_by_time_window(related_transactions, time_window_hours)
        scored == [i \in 1..Len(time_groups) |->
                      [transactions |-> time_groups[i],
                       coordination_score |-> _calculate_coordination_score(time_groups[i]),
                       time_window |-> time_groups[i][1].transaction_date,
                       participant_count |-> Len(time_groups[i])]]
        coordinated_groups ==
            Filter(scored, LAMBDA g : /\ g.participant_count >= min_coordinated_accounts
                                      /\ g.coordination_score > 6)
        smurfing_score == _calculate_smurfing_score(coordinated_groups)
    IN  [detected |-> ScoreAbove(smurfing_score, 7),
         smurfing_score |-> smurfing_score,
         coordinated_groups |-> coordinated_groups,
         confidence_level |-> IF ScoreAbove(smurfing_score, 8) THEN "high"
                              ELSE IF ScoreAbove(smurfing_score, 5) THEN "medium" ELSE "low"]

\* the current transaction of a structuring check, at the end of day 30
CurrentTransactions ==
    [amount : {9400, 9600, 10000}, transaction_date : {720}]

\* earlier transactions of the same customer: in the last day or weeks ago
CustomerTransactions ==
    [amount : {5000, 9600, 10000}, transaction_date : {0, 240, 480, 717, 718, 719}]

\* transfers to counterparties, two hours apart at most unless stated
Transfers ==
    {[counterparty_id |-> "acme_corp", amount |-> 4990, transaction_date |-> 0],
     [counterparty_id |-> "acme_corp", amount |-> 5005, transaction_date |-> 1],
     [counterparty_id |-> "acme_corp", amount |-> 4998, transaction_date |-> 2],
     [counterparty_id |-> "globex", amount |-> 5005, transaction_date |-> 1],
     [counterparty_id |-> "initech", amount |-> 4998, transaction_date |-> 2],
     [counterparty_id |-> "acme_corp", amount |-> 9000, transaction_date |-> 1],
     [counterparty_id |-> "acme_corp", amount |-> 4998, transaction_date |-> 720],
     [counterparty_id |-> "acme_corp", amount |-> 5005, transaction_date |-> NoDate],
     [counterparty_id |-> "acme_corp", amount |-> 4990, transaction_date |-> 20],
     [counterparty_id |-> "acme_corp", amount |-> 5005, transaction_date |-> 40]}

\* lists of at most MaxRelated transactions out of txs
RelatedLists(txs) == UNION {[1..n -> txs] : n \in 0..MaxRelated}

\* a call of detect_structuring_patterns
structuring_call ==
    /\ args = EmptyDict
    /\ \E transaction_data \in CurrentTransactions :
       \E related_transactions \in RelatedLists(CustomerTransactions) :
          /\ args' = [function |-> "detect_structuring_patterns",
                      transaction_data |-> transaction_data,
                      related_transactions |-> related_transactions]
          /\ returned' = detect_structuring_patterns(transaction_data, related_transactions)
    /\ UNCHANGED <<case_vars, batch_vars>>

\* a call of detect_smurfing_patterns
smurfing_call ==
    /\ args = EmptyDict
    /\ \E transaction_data \in Transfers :
       \E related_transactions \in RelatedLists(Transfers) :
          /\ args' = [function |-> "detect_smurfing_patterns",
                      transaction_data |-> transaction_data,
                      related_transactions |-> related_transactions]
          /\ returned' = detect_smurfing_patterns(transaction_data, related_transactions)
    /\ UNCHANGED <<case_vars, batch_vars>>

\* a call of _group_by_time_window
grouping_call ==
    /\ args = EmptyDict
    /\ \E transactions \in RelatedLists(Transfers) :
          /\ args' = [function |-> "_group_by_time_window",
                      transactions |-> transactions,
                      time_window_hours |-> time_window_hours]
          /\ returned' = [groups |-> _group_by_time_window(transactions, time_window_hours)]
    /\ UNCHANGED <<case_vars, batch_vars>>

ToolsNext == structuring_call \/ smurfing_call \/ grouping_call

ToolsSpec == Init /\ [][ToolsNext]_vars

\* ------------------------------------------------------------------------
\* Vocabulary of the properties
\* ------------------------------------------------------------------------
\* the entry each node's function passes to update_path
path_marker ==
    [initial_screening |-> "start",
     crypto_analysis |-> "crypto_analysis",
     geo_analysis |-> "geo_analysis",
     document_check |-> "document_analysis",
     behavior_check |-> "behavior_analysis",
     sanctions_check |-> "sanctions_check",
     pep_check |-> "pep_check",
     edd |-> "enhanced_dd",
     score_risk |-> "risk_scoring",
     generate_sar |-> "sar_generation",
     human_review |-> "human_review"]

\* the nodes add_node registers in graph g
stage_nodes(g) == DOMAIN conditional_edges(g) \cup DOMAIN edges(g)

Last(s) == s[Len(s)]

\* entry a occurs in path and some later position holds b
Before(a, b, path) ==
    \E i \in 1..Len(path) : \E j \in 1..Len(path) :
        i < j /\ path[i] = a /\ path[j] = b

Terminated == node = END

\* ------------------------------------------------------------------------
\* C1
\* ------------------------------------------------------------------------
\* C1: in both graphs routing is total and acyclic: the label the routing
\* function of the node that ran last returns on the state it produced has
\* an entry in that node's path map, the entry is a node of the graph or
\* END, and no node occurs twice among the nodes a case has executed.
C1_RoutingTotalAcyclic ==
    /\ \A i \in 1..Len(executed) : \A j \in 1..Len(executed) :
          i # j => executed[i] # executed[j]
    /\ \A i \in 1..Len(executed) : executed[i] \in stage_nodes(graph)
    /\ (executed # <<>> /\ Last(executed) \in DOMAIN conditional_edges(graph)) =>
          LET n == Last(executed)
              label == route(graph, n, state)
          IN  /\ label \in DOMAIN conditional_edges(graph)[n]
              /\ conditional_edges(graph)[n][label] \in stage_nodes(graph) \cup {END}

\* a case of the full graph that ran the longest route to END
C1_Witness ==
    /\ graph = "full"
    /\ Terminated
    /\ executed = <<"initial_screening", "crypto_analysis", "document_check",
                    "behavior_check", "sanctions_check", "pep_check", "edd",
                    "score_risk", "generate_sar">>


\* ------------------------------------------------------------------------
\* C2
\* ------------------------------------------------------------------------
\* C2: a case started at initial_screening eventually reaches END, after at
\* most as many stage executions as the graph has nodes, unless a stage
\* call raises instead of returning.
C2_ReachesEnd ==
    <>(\/ node = ABORTED
       \/ Terminated /\ Len(executed) <= Cardinality(stage_nodes(graph)))

\* a case of the full graph that went through human review to END
C2_Witness ==
    /\ graph = "full"
    /\ Terminated
    /\ Last(executed) = "human_review"
    /\ Head(executed) = "initial_screening"

\* ------------------------------------------------------------------------
\* C3
\* ------------------------------------------------------------------------
\* the scenario: amount 250,000, country IR, account three days old
C3_Scenario ==
    /\ Get(state.transaction, "amount", 0) = 250000
    /\ Get(state.transaction, "country", None) = "IR"
    /\ Get(state.customer, "account_age_days", 365) = 3

\* C3 as stated: in the scenario a path that holds score_risk holds edd
\* before it.
C3_EddBeforeScore ==
    (C3_Scenario /\ "risk_scoring" \in Range(state.decision_path)) =>
        Before("enhanced_dd", "risk_scoring", state.decision_path)

\* C3 amended: in the full graph a non-crypto case of the scenario goes
\* from initial_screening to geo_analysis, and a path that holds score_risk
\* holds geo_analysis before it and holds edd before it exactly when
\* pep_check found a PEP.
C3_GeoBeforeScore ==
    (graph = "full" /\ C3_Scenario
       /\ Get(state.transaction, "asset_type", None) # "CRYPTO") =>
        /\ Len(executed) >= 2 => executed[2] = "geo_analysis"
        /\ "risk_scoring" \in Range(state.decision_path) =>
              /\ Before("geo_analysis", "risk_scoring", state.decision_path)
              /\ Before("enhanced_dd", "risk_scoring", state.decision_path)
                    <=> state.pep_status = "True"

\* the scenario, scored without edd, at END
C3_Witness ==
    /\ graph = "full"
    /\ C3_Scenario
    /\ Terminated
    /\ "risk_scoring" \in Range(state.decision_path)
    /\ "enhanced_dd" \notin Range(state.decision_path)

\* ------------------------------------------------------------------------
\* C4
\* ------------------------------------------------------------------------
\* one sanction hit and nothing else that scores
C4_OneHitOnly ==
    /\ Len(state.sanction_hits) = 1
    /\ state.risk_factors = <<"SANCTION_HIT_" \o state.sanction_hits[1]>>
    /\ state.alerts = <<>>
    /\ state.document_risks = <<>>
    /\ state.pep_status # "True"
    /\ ~state.structuring_detected
    /\ ~state.smurfing_detected

\* C4 as stated: a terminated case with exactly one sanction hit and no
\* other factor has executed score_risk, has risk_score 40 and is SAR_FILED.
C4_ScoredAndFiled ==
    (Terminated /\ C4_OneHitOnly) =>
        /\ "score_risk" \in Range(executed)
        /\ state.risk_score = 40
        /\ state.reporting_status = "SAR_FILED"

\* C4 amended: in the full graph such a case goes from sanctions_check
\* straight to generate_sar: it is SAR_FILED, score_risk never ran and
\* risk_score is still 0; in the simplified graph score_risk runs, reports
\* exactly 40 and the case ends in human_review with HUMAN_REVIEW.
C4_FiledUnscoredOrScoredReviewed ==
    (Terminated /\ C4_OneHitOnly) =>
        /\ graph = "full" =>
              /\ "score_risk" \notin Range(executed)
              /\ state.risk_score = 0
              /\ Last(executed) = "generate_sar"
              /\ state.reporting_status = "SAR_FILED"
        /\ graph = "simple" =>
              /\ "score_risk" \in Range(executed)
              /\ state.risk_score = 40
              /\ Last(executed) = "human_review"
              /\ state.reporting_status = "HUMAN_REVIEW"

\* a full-graph case with one hit and nothing else, at END
C4_Witness ==
    /\ graph = "full"
    /\ Terminated
    /\ C4_OneHitOnly

\* ------------------------------------------------------------------------
\* C5
\* ------------------------------------------------------------------------
C5_Flagged(tx) ==
    \/ Get(tx, "from_bank", None) \in Range(HIGH_RISK_BANKS)
    \/ Get(tx, "to_bank", None) \in Range(HIGH_RISK_BANKS)

\* the step in which initial_screening of the full graph returns
C5_Screening == graph = "full" /\ node = "initial_screening"

\* C5 as stated: the stage after initial_screening is crypto_analysis for
\* CRYPTO, else geo_analysis for amount > 100,000 or a flagged bank, else
\* edd for an account younger than 7 days, else document_check.
C5_BankBeforeAge ==
    [][C5_Screening =>
        node' = IF Get(state.transaction, "asset_type", None) = "CRYPTO"
                   THEN "crypto_analysis"
                ELSE IF Get(state.transaction, "amount", 0) > 100000
                         \/ C5_Flagged(state.transaction)
                   THEN "geo_analysis"
                ELSE IF Get(state.customer, "account_age_days", 365) < 7 THEN "edd"
                ELSE "document_check"]_vars

\* C5 amended: the stage after initial_screening is crypto_analysis for
\* CRYPTO, else geo_analysis for amount > 100,000, else edd for an account
\* younger than 7 days, else geo_analysis for a flagged bank, else
\* document_check.
C5_AgeBeforeBank ==
    [][C5_Screening =>
        node' = IF Get(state.transaction, "asset_type", None) = "CRYPTO"
                   THEN "crypto_analysis"
                ELSE IF Get(state.transaction, "amount", 0) > 100000
                   THEN "geo_analysis"
                ELSE IF Get(state.customer, "account_age_days", 365) < 7 THEN "edd"
                ELSE IF C5_Flagged(state.transaction) THEN "geo_analysis"
                ELSE "document_check"]_vars

\* a new account at a flagged bank with a small amount, sent to edd
C5_Witness ==
    /\ graph = "full"
    /\ executed = <<"initial_screening">>
    /\ C5_Flagged(state.transaction)
    /\ Get(state.transaction, "amount", 0) <= 100000
    /\ Get(state.customer, "account_age_days", 365) < 7
    /\ node = "edd"

\* ------------------------------------------------------------------------
\* C6
\* ------------------------------------------------------------------------
\* C6: in the full graph the step that leaves score_risk goes to
\* generate_sar exactly when the score it wrote is >= 65, to human_review
\* exactly when the score is in 40..64, and to END exactly when it is
\* below 40.
C6_ScoreThresholds ==
    [][(graph = "full" /\ node = "score_risk") =>
          /\ node' = "generate_sar" <=> state'.risk_score >= 65
          /\ node' = "human_review" <=>
                (40 <= state'.risk_score /\ state'.risk_score < 65)
          /\ node' = END <=> state'.risk_score < 40]_vars

\* a case scored exactly 65, sent to generate_sar
C6_Witness ==
    /\ graph = "full"
    /\ executed # <<>>
    /\ Last(executed) = "score_risk"
    /\ state.risk_score = 65
    /\ node = "generate_sar"

\* ------------------------------------------------------------------------
\* C7
\* ------------------------------------------------------------------------
\* C7: a terminated case of the full graph has a non-empty decision_path,
\* and the node that ran last is generate_sar or human_review, or it is
\* score_risk with a risk_score below 40.
C7_LastStage ==
    (graph = "full" /\ Terminated) =>
        /\ state.decision_path # <<>>
        /\ \/ Last(executed) \in {"generate_sar", "human_review"}
           \/ Last(executed) = "score_risk" /\ state.risk_score < 40

\* a case closed by score_risk with a positive score below 40
C7_Witness ==
    /\ graph = "full"
    /\ Terminated
    /\ Last(executed) = "score_risk"
    /\ state.risk_score > 0
    /\ state.risk_score < 40

\* ------------------------------------------------------------------------
\* C8
\* ------------------------------------------------------------------------
\* the number of entries of the list that hold one of the tags
C8_Tagged(list, tags) ==
    Cardinality({i \in DOMAIN list : \E tag \in tags : Contains(tag, list[i])})

\* the weighted sum of the factors state s holds
C8_WeightedSum(s) ==
    40 * Len(s.sanction_hits)
    + 35 * (IF s.pep_status = "True" THEN 1 ELSE 0)
    + 25 * C8_Tagged(s.risk_factors, {"CRYPTO"})
    + 20 * C8_Tagged(s.risk_factors, {"HIGH_RISK", "TAX_HAVEN"})
    + 15 * Len(s.document_risks)
    + 10 * Len(s.alerts)
    + 30 * (IF s.structuring_detected THEN 1 ELSE 0)
    + 30 * (IF s.smurfing_detected THEN 1 ELSE 0)

\* C8: in both graphs the risk_score score_risk writes is the weighted sum
\* of the factors of the state it was given, capped at 100; it lies in
\* 0..100 and nothing but that state determines it.
C8_ScoreFormula ==
    [][node = "score_risk" =>
          /\ state'.risk_score = Min(100, C8_WeightedSum(state))
          /\ state'.risk_score \in 0..100]_vars

\* a case whose factors sum to more than 100, scored 100
C8_Witness ==
    /\ executed # <<>>
    /\ Last(executed) = "score_risk"
    /\ C8_WeightedSum(state) > 100
    /\ state.risk_score = 100

\* ------------------------------------------------------------------------
\* C9
\* ------------------------------------------------------------------------
\* C9: case_id is set exactly in the states whose reporting_status is
\* SAR_FILED, only the return of generate_sar changes it, and once set it
\* keeps its value.
C9_CaseIdOnce ==
    /\ [](state.case_id # None <=> state.reporting_status = "SAR_FILED")
    /\ [][state'.case_id # state.case_id =>
             node = "generate_sar" /\ state.case_id = None]_vars

\* a terminated case that carries a case id
C9_Witness ==
    /\ Terminated
    /\ Last(executed) = "generate_sar"
    /\ state.case_id \in CaseIds
    /\ state.reporting_status = "SAR_FILED"

\* ------------------------------------------------------------------------
\* C10
\* ------------------------------------------------------------------------
\* C10: a node that returns has extended decision_path by exactly its own
\* marker and left the earlier entries alone, nothing else changes the
\* path, a node suspended in an analyzer call has already appended its
\* marker, and the path is as long as the number of nodes executed.
C10_PathAppendOnly ==
    /\ [](Len(state.decision_path) = Len(executed))
    /\ [](pc = "await" =>
             local.decision_path = Append(state.decision_path, path_marker[node]))
    /\ [][executed' # executed =>
             state'.decision_path = Append(state.decision_path, path_marker[node])]_vars
    /\ [][state'.decision_path # state.decision_path => executed' # executed]_vars

\* a node suspended in its analyzer call after three nodes have returned
C10_Witness ==
    /\ pc = "await"
    /\ Len(state.decision_path) >= 3
    /\ Len(local.decision_path) = Len(state.decision_path) + 1

\* ------------------------------------------------------------------------
\* C11
\* ------------------------------------------------------------------------
\* score_risk ran and the graph went on to generate_sar
C11_ScoredToSar ==
    \E i \in 1..(Len(executed) - 1) :
        executed[i] = "score_risk" /\ executed[i + 1] = "generate_sar"

\* C11: the level is CRITICAL from 80, HIGH from 65, MEDIUM from 40 and LOW
\* below; the output of a labelled case that ended in the full graph has
\* predicted = 1 exactly when its level is HIGH or CRITICAL, which is
\* exactly when score_risk sent the case to generate_sar.
C11_LevelAndPrediction ==
    /\ \A score \in 0..100 :
          _determine_risk_level(score) =
              IF score >= 80 THEN "CRITICAL"
              ELSE IF score >= 65 THEN "HIGH"
              ELSE IF score >= 40 THEN "MEDIUM"
              ELSE "LOW"
    /\ (graph = "full" /\ Terminated /\ state.ground_truth_label # <<>>) =>
          LET output == format_analysis_output(state)
              escalated == output.analysis_report.risk_level \in {"HIGH", "CRITICAL"}
          IN  /\ output.model_performance.predicted = 1 <=> escalated
              /\ escalated <=> C11_ScoredToSar

\* a labelled case that ended with level HIGH after generate_sar
C11_Witness ==
    /\ graph = "full"
    /\ Terminated
    /\ state.ground_truth_label # <<>>
    /\ C11_ScoredToSar
    /\ format_analysis_output(state).analysis_report.risk_level = "HIGH"
    /\ format_analysis_output(state).model_performance.predicted = 1

\* ------------------------------------------------------------------------
\* C12
\* ------------------------------------------------------------------------
\* C12: while a batch runs and when it has returned, every row the loop has
\* passed is tallied exactly once: it is in the results or it added 1 to
\* errors, never both; the rows in the results are the rows that did not
\* fail, each once and in order; and total_processed grew by the number of
\* results.  A row that failed did not stop the rows after it.
C12_TalliedOnce ==
    bpc \in {"row", "await", "done"} =>
        LET passed == idx - 1
            errors_added == processing_stats.errors - stats_before.errors
            kept == {results[i].row : i \in 1..Len(results)}
        IN  /\ Len(results) + errors_added = passed
            /\ processing_stats.total_processed - stats_before.total_processed
                 = Len(results)
            /\ errors_added = Cardinality(failed)
            /\ kept = (1..passed) \ failed
            /\ \A i \in 1..Len(results) : \A j \in 1..Len(results) :
                  i < j => results[i].row < results[j].row
            /\ bpc = "done" => passed = Len(rows)

\* a batch of three rows has returned; the investigation of its second row
\* failed and the other two rows are in the results
C12_Witness ==
    /\ bpc = "done"
    /\ Len(rows) = 3
    /\ failed = {2}
    /\ Len(results) = 2
    /\ processing_stats.errors = stats_before.errors + 1

\* ------------------------------------------------------------------------
\* C13
\* ------------------------------------------------------------------------
\* the stages that call the external analyzer for risk tags
C13_AnalyzerStages == {"document_check", "behavior_check", "crypto_analysis", "edd"}

\* C13 as stated: a stage suspended in its analyzer call is never aborted:
\* whatever the call does, the stage returns, and if the call failed the
\* stage returns with no tags from the analyzer.
C13_FailureNotAborting ==
    [][(pc = "await" /\ node \in C13_AnalyzerStages) =>
          /\ node' # ABORTED
          /\ executed' = Append(executed, node)]_vars

\* ------------------------------------------------------------------------
\* C14
\* ------------------------------------------------------------------------
\* the raw record of a started case carries none of the sentinel keys
C14_Unrecognized ==
    /\ node # IDLE
    /\ DOMAIN raw \cap {"From Bank", "transaction_id", "SENDER_ACCOUNT_ID"} = {}

\* C14 as stated: a record of no known shape is rejected: no case holds an
\* empty canonical record and no stage runs on such a record.
C14_SchemaError ==
    C14_Unrecognized =>
        /\ state.transaction # EmptyDict
        /\ node = ABORTED
        /\ executed = <<>>

\* ------------------------------------------------------------------------
\* C15
\* ------------------------------------------------------------------------
\* the identities of C15 for the metrics a call returned
C15_Identities ==
    LET N == Len(args.ground_truth)
        TP == returned.true_positives
        FP == returned.false_positives
        TN == returned.true_negatives
        FN == returned.false_negatives
    IN  /\ TP + FP + TN + FN = N
        /\ SameNumber(returned.accuracy, Quotient(TP + TN, N))
        /\ SameNumber(returned.precision, Quotient(TP, TP + FP))
        /\ SameNumber(returned.recall, Quotient(TP, TP + FN))

\* C15 as stated: for every pair of equal-length lists of N >= 1 binary
\* labels and predictions, both calculators return TP + FP + TN + FN = N,
\* accuracy (TP+TN)/N, precision TP/(TP+FP) and recall TP/(TP+FN), a
\* quotient with denominator 0 being 0.
C15_BasicMetrics == returned # EmptyDict => C15_Identities

\* what holds: the identities hold for calculate_accuracy_metrics on every
\* input, and for calculate_basic_metrics whenever both labels occur among
\* the ground truth and the predictions.
C15_SaveSingleLabel ==
    (/\ returned # EmptyDict
     /\ \/ args.function = "calculate_accuracy_metrics"
        \/ Range(args.ground_truth) \cup Range(args.predictions) = {0, 1})
        => C15_Identities

\* ------------------------------------------------------------------------
\* C16
\* ------------------------------------------------------------------------
\* a structuring check of a current transaction of 9,600 with three related
\* transactions of 9,600
C16_FourNearThreshold ==
    /\ args # EmptyDict
    /\ args.function = "detect_structuring_patterns"
    /\ args.transaction_data.amount = 9600
    /\ Len(args.related_transactions) = 3
    /\ \A tx \in Range(args.related_transactions) : tx.amount = 9600

\* the related transactions all fall in the 24 hours before the current one
C16_WithinWindow ==
    \A tx \in Range(args.related_transactions) :
        args.transaction_data.transaction_date - tx.transaction_date
            \in 0..time_window_hours

\* the related transactions all fall outside it, days apart from each other
C16_SpreadOut ==
    /\ \A tx \in Range(args.related_transactions) :
          args.transaction_data.transaction_date - tx.transaction_date
              > time_window_hours
    /\ \A i, j \in 1..Len(args.related_transactions) :
          i # j => args.related_transactions[i].transaction_date
                      # args.related_transactions[j].transaction_date

\* C16 as stated: four transactions of 9,600 within 24 hours give
\* detected = true, and four transactions of 9,600 spread across 30 days
\* give detected = false.
C16_WindowCounts ==
    C16_FourNearThreshold =>
        /\ C16_WithinWindow => returned.detected
        /\ C16_SpreadOut => ~returned.detected

\* what holds: four transactions of 9,600 give detected = true whatever
\* their dates.
C16_DetectedWhateverDates ==
    C16_FourNearThreshold => returned.detected

\* ------------------------------------------------------------------------
\* C17
\* ------------------------------------------------------------------------
\* a smurfing check has returned
C17_Checked ==
    /\ args # EmptyDict
    /\ args.function = "detect_smurfing_patterns"

\* at least 3 related transactions, all to one counterparty, all within 2
\* hours, with amounts among 4990, 5005 and 4998
C17_NearEqualWindow ==
    /\ C17_Checked
    /\ Len(args.related_transactions) >= 3
    /\ \A tx \in Range(args.related_transactions) :
          /\ tx.counterparty_id = "acme_corp"
          /\ tx.transaction_date \in 0..2
          /\ tx.amount \in {4990, 5005, 4998}

\* 3 related transactions to 3 different counterparties
C17_ThreeRecipients ==
    /\ C17_Checked
    /\ Len(args.related_transactions) = 3
    /\ Cardinality({tx.counterparty_id : tx \in Range(args.related_transactions)}) = 3

\* C17: a window of at least 3 transactions to one counterparty within 2
\* hours with amounts 4990, 5005, 4998 is reported as coordinated with a
\* coordination score above 0.6 and detected is true; 3 transactions to 3
\* different counterparties give detected = false; and every coordinated
\* window has one recipient only.
C17_SmurfingDetector ==
    /\ C17_NearEqualWindow =>
          /\ returned.detected
          /\ Len(returned.coordinated_groups) = 1
          /\ returned.coordinated_groups[1].coordination_score > 6
          /\ returned.coordinated_groups[1].participant_count
                = Len(args.related_transactions)
    /\ C17_ThreeRecipients => ~returned.detected
    /\ C17_Checked =>
          \A i \in 1..Len(returned.coordinated_groups) :
              Cardinality({tx.counterparty_id :
                              tx \in Range(returned.coordinated_groups[i].transactions)}) = 1

\* the three transfers of 4990, 5005 and 4998 to acme_corp within 2 hours
\* were checked and reported
C17_Witness ==
    /\ C17_NearEqualWindow
    /\ {tx.amount : tx \in Range(args.related_transactions)} = {4990, 5005, 4998}
    /\ returned.detected

\* ------------------------------------------------------------------------
\* C18
\* ------------------------------------------------------------------------
\* crypto_analysis returns in this step and the graph follows its edge
C18_Returns ==
    /\ node = "crypto_analysis"
    /\ node' # "crypto_analysis"
    /\ node' # ABORTED

\* the risk tags crypto_analysis added in this step
C18_Added ==
    Range(SubSeq(state'.risk_factors, Len(state.risk_factors) + 1,
                 Len(state'.risk_factors)))

\* C18 as stated: after crypto_analysis the case goes to edd if the stage
\* accumulated at least 2 distinct risk tags (mixer, darknet, new wallet,
\* complex routing, analyzer tags), and to document_check otherwise.
C18_DistinctFactors ==
    [][C18_Returns =>
          node' = IF Cardinality(C18_Added) >= 2 THEN "edd" ELSE "document_check"]_vars

\* what holds: the case goes to edd exactly when at least 2 entries of
\* risk_factors have CRYPTO in their tag.
C18_CryptoTags ==
    [][C18_Returns =>
          node' = IF Len(Filter(state'.risk_factors,
                                LAMBDA rf : Contains("CRYPTO", rf))) >= 2
                  THEN "edd" ELSE "document_check"]_vars

\* ------------------------------------------------------------------------
\* C19
\* ------------------------------------------------------------------------
\* C19 as stated: at END of the full graph SAR_FILED implies
\* risk_score >= 65, HUMAN_REVIEW implies 40 <= risk_score < 65, and no
\* reporting_status implies risk_score < 40.
C19_DispositionAgreesWithScore ==
    (graph = "full" /\ Terminated) =>
        /\ state.reporting_status = "SAR_FILED" => state.risk_score >= 65
        /\ state.reporting_status = "HUMAN_REVIEW" =>
              (40 <= state.risk_score /\ state.risk_score < 65)
        /\ state.reporting_status = None => state.risk_score < 40

\* C19 amended: at END of the full graph HUMAN_REVIEW implies
\* 40 <= risk_score < 65 and no reporting_status implies risk_score < 40;
\* SAR_FILED implies risk_score >= 65 only for a case score_risk has scored:
\* a case with a sanction hit is filed straight from sanctions_check, was
\* never scored and has risk_score 0.
C19_AgreesUnlessSanctionHit ==
    (graph = "full" /\ Terminated) =>
        /\ state.reporting_status = "SAR_FILED" =>
              \/ /\ "score_risk" \in Range(executed)
                 /\ state.sanction_hits = <<>>
                 /\ state.risk_score >= 65
              \/ /\ "score_risk" \notin Range(executed)
                 /\ state.sanction_hits # <<>>
                 /\ state.risk_score = 0
        /\ state.reporting_status = "HUMAN_REVIEW" =>
              (40 <= state.risk_score /\ state.risk_score < 65)
        /\ state.reporting_status = None => state.risk_score < 40
        /\ state.reporting_status \in {"SAR_FILED", "HUMAN_REVIEW", None}

\* a case filed for its sanction hit, at END with risk_score 0
C19_Witness ==
    /\ graph = "full"
    /\ Terminated
    /\ state.reporting_status = "SAR_FILED"
    /\ state.sanction_hits # <<>>
    /\ state.risk_score = 0
    /\ Last(executed) = "generate_sar"

\* ------------------------------------------------------------------------
\* C20
\* ------------------------------------------------------------------------
\* the nodes of the case so far, the one to run next included
C20_Route == executed \o <<node>>

\* a case of the full graph routed to edd directly from initial_screening
\* or from crypto_analysis
C20_RoutedEarly ==
    /\ graph = "full"
    /\ Len(C20_Route) >= 2
    /\ C20_Route[1] = "initial_screening"
    /\ \/ C20_Route[2] = "edd"
       \/ /\ Len(C20_Route) >= 3
          /\ C20_Route[2] = "crypto_analysis"
          /\ C20_Route[3] = "edd"

\* C20: in the full graph a case routed to edd directly from
\* initial_screening or from crypto_analysis never executes sanctions_check
\* or pep_check: after edd only score_risk, generate_sar and human_review
\* run, and from edd on, at score_risk and at END, sanction_hits is empty and
\* pep_status is unset, whatever the names of customer and counterparty.
C20_NeverScreened ==
    C20_RoutedEarly =>
        /\ "sanctions_check" \notin Range(C20_Route)
        /\ "pep_check" \notin Range(C20_Route)
        /\ \A i \in 1..Len(C20_Route) :
              C20_Route[i] \in {"initial_screening", "crypto_analysis", "edd", "score_risk",
                                "generate_sar", "human_review", END, ABORTED}
        /\ state.sanction_hits = <<>>
        /\ state.pep_status = "None"

\* a new account paying a sanctioned counterparty went from
\* initial_screening to edd, was scored and reached END
C20_Witness ==
    /\ C20_RoutedEarly
    /\ C20_Route[2] = "edd"
    /\ "score_risk" \in Range(executed)
    /\ Terminated
    /\ check_sanctions_list(sanction_parties(state)) # <<>>

\* ------------------------------------------------------------------------
\* C21
\* ------------------------------------------------------------------------
\* C21: risk_score is 0 as long as score_risk has not run; a step of any
\* other stage leaves it as it is; and the value score_risk stores is the
\* one it computes from the case with any other previous risk_score.
C21_OnlyScoreRiskScores ==
    /\ []("score_risk" \notin Range(executed) => state.risk_score = 0)
    /\ [][/\ node # "score_risk" => state'.risk_score = state.risk_score
          /\ (node = "score_risk" /\ node' # "score_risk") =>
                \A previous \in {0, 40, 100} :
                    state'.risk_score
                        = risk_scoring([state EXCEPT !.risk_score = previous]).risk_score]_vars

\* a case score_risk gave a positive score, at END
C21_Witness ==
    /\ Terminated
    /\ "score_risk" \in Range(executed)
    /\ state.risk_score > 0

\* ------------------------------------------------------------------------
\* C22
\* ------------------------------------------------------------------------
\* a stage returns in this step
C22_StageReturns ==
    /\ node \in stage_nodes(graph)
    /\ executed' = Append(executed, node)

\* C22 as stated: a stage that returns leaves the transaction and the
\* customer of the case as they were and leaves the state it was called with
\* unchanged; at END the transaction is the canonical one the case started
\* with.
C22_NoStageMutates ==
    /\ [][C22_StageReturns =>
             /\ state'.transaction = state.transaction
             /\ state'.customer = state.customer
             /\ received_state(graph, node, state) = state]_vars
    /\ [](Terminated => state.transaction = unify_transaction_data(raw))

\* what holds: transaction and customer are never modified, and the state a
\* stage was called with is left unchanged by every stage but pep_check
\* screening a politically exposed customer.
C22_TransactionAndCustomerKept ==
    /\ [][C22_StageReturns =>
             /\ state'.transaction = state.transaction
             /\ state'.customer = state.customer
             /\ received_state(graph, node, state).transaction = state.transaction
             /\ received_state(graph, node, state).customer = state.customer
             /\ (node # "pep_check" \/ state'.pep_status # "True") =>
                   received_state(graph, node, state) = state]_vars
    /\ [](Terminated => state.transaction = unify_transaction_data(raw))

\* ------------------------------------------------------------------------
\* C23
\* ------------------------------------------------------------------------
\* an amount in [0.95 * threshold, threshold) with threshold 10,000
C23_NearThreshold(amount) ==
    /\ amount * 100 >= 95 * CTR_THRESHOLD
    /\ amount < CTR_THRESHOLD

\* the number of near-threshold transactions of case s within the trailing
\* 24 hours, the current one included
C23_NearThresholdInWindow(s) ==
    Len(Filter(Get(s.customer, "transaction_history", <<>>),
               LAMBDA tx : tx.hours_ago \in 0..23 /\ C23_NearThreshold(tx.amount)))
    + (IF C23_NearThreshold(Get(s.transaction, "amount", 0)) THEN 1 ELSE 0)

\* behavior_check returns in this step
C23_BehaviorCheckReturns ==
    /\ node = "behavior_check"
    /\ executed' = Append(executed, node)

\* C23 as stated: behavior_check raises STRUCTURING_PATTERN and sets
\* structuring_detected exactly when more than 3 transactions, the current
\* one included, lie within the trailing 24 hours and have an amount in
\* [0.95 * threshold, threshold).
C23_NearThresholdCount ==
    [][C23_BehaviorCheckReturns =>
          /\ state'.structuring_detected <=> C23_NearThresholdInWindow(state) > 3
          /\ "STRUCTURING_PATTERN" \in Range(state'.alerts)
                <=> C23_NearThresholdInWindow(state) > 3]_vars

\* what holds: the alert is raised exactly when more than 3 transactions, the
\* current one included, lie within the last day and every one of them is
\* below the threshold, however small.
C23_AllBelowThreshold ==
    [][C23_BehaviorCheckReturns =>
          LET in_window == Filter(Get(state.customer, "transaction_history", <<>>),
                                  LAMBDA tx : tx.hours_ago \in 0..23)
              raised == /\ Len(in_window) + 1 > 3
                        /\ \A tx \in Range(in_window) : tx.amount < CTR_THRESHOLD
                        /\ Get(state.transaction, "amount", 0) < CTR_THRESHOLD
          IN  /\ state'.structuring_detected <=> raised
              /\ "STRUCTURING_PATTERN" \in Range(state'.alerts) <=> raised]_vars

\* ------------------------------------------------------------------------
\* C24
\* ------------------------------------------------------------------------
\* _group_by_time_window has returned
C24_Grouped ==
    /\ args # EmptyDict
    /\ args.function = "_group_by_time_window"

\* the groups one after the other
RECURSIVE C24_Flat(_)
C24_Flat(groups) ==
    IF groups = <<>> THEN <<>> ELSE groups[1] \o C24_Flat(Tail(groups))

\* position in the flattened list of the first transaction of group g
C24_Start(groups, g) == Len(C24_Flat(SubSeq(groups, 1, g - 1))) + 1

\* the group that holds position p of the flattened list
C24_GroupOf(groups, p) ==
    CHOOSE g \in 1..Len(groups) :
        C24_Start(groups, g) <= p /\ p < C24_Start(groups, g) + Len(groups[g])

\* transactions a and b both have a date and are at most window hours apart
C24_Within(a, b, window) ==
    /\ a.transaction_date # NoDate
    /\ b.transaction_date # NoDate
    /\ b.transaction_date - a.transaction_date \in (0 - window)..window

\* the windows are disjoint and cover the transactions: no window is empty,
\* and one after the other they are the transactions in the order of their
\* dates
C24_Partition ==
    /\ \A g \in 1..Len(returned.groups) : returned.groups[g] # <<>>
    /\ Len(C24_Flat(returned.groups)) = Len(args.transactions)
    /\ \A tx \in Range(args.transactions) :
          Len(Filter(C24_Flat(returned.groups), LAMBDA t : t = tx))
              = Len(Filter(args.transactions, LAMBDA t : t = tx))
    /\ \A p \in 1..(Len(args.transactions) - 1) :
          C24_Flat(returned.groups)[p].transaction_date
              <= C24_Flat(returned.groups)[p + 1].transaction_date

\* C24 as stated: the grouping is a partition of the time-sorted
\* transactions, and two consecutive transactions are in the same window
\* exactly when the gap between them is at most the window length.
C24_ChainedByGap ==
    C24_Grouped =>
        /\ C24_Partition
        /\ \A p \in 1..(Len(args.transactions) - 1) :
              LET flat == C24_Flat(returned.groups)
              IN  C24_GroupOf(returned.groups, p) = C24_GroupOf(returned.groups, p + 1)
                     <=> C24_Within(flat[p], flat[p + 1], args.time_window_hours)

\* C24 amended: the grouping is a partition of the time-sorted transactions,
\* and a transaction is in the window of the one before it exactly when it
\* is at most the window length after the first transaction of that window.
C24_AnchoredAtFirst ==
    C24_Grouped =>
        /\ C24_Partition
        /\ \A p \in 1..(Len(args.transactions) - 1) :
              LET flat == C24_Flat(returned.groups)
                  g == C24_GroupOf(returned.groups, p)
              IN  g = C24_GroupOf(returned.groups, p + 1)
                     <=> C24_Within(flat[C24_Start(returned.groups, g)], flat[p + 1],
                                    args.time_window_hours)

\* transactions at hours 0, 20 and 40 were grouped with a window of 24
\* hours: the first two share a window, the third opens a new one
C24_Witness ==
    /\ C24_Grouped
    /\ Len(returned.groups) = 2
    /\ [g \in 1..2 |-> [i \in 1..Len(returned.groups[g]) |->
                           returned.groups[g][i].transaction_date]]
          = <<(<<0, 20>>), (<<40>>)>>

\* ------------------------------------------------------------------------
\* C25
\* ------------------------------------------------------------------------
\* C25 as stated, for the stage: behavior_check, when it computes the
\* structuring window, never fails, whatever the timestamps of the history
\* are; it goes on to its analyzer call.
C25_BehaviorCheckNeverFails ==
    [][(node = "behavior_check" /\ pc = "ready") => node' # ABORTED]_vars

\* what holds in _group_by_time_window: a transaction whose date is not a
\* date shares its window with no other transaction.
C25_MalformedAlone ==
    C24_Grouped =>
        \A g \in 1..Len(returned.groups) :
            (\E tx \in Range(returned.groups[g]) : tx.transaction_date = NoDate)
                => Len(returned.groups[g]) = 1

\* ------------------------------------------------------------------------
\* C26
\* ------------------------------------------------------------------------
\* the sum of f over the runs
C26_OverRuns(f(_)) == f(runs[1]) + f(runs[2])

\* the number of results of a run that satisfy test
C26_Kept(run, test(_)) == Len(Filter(run.results, test))

\* C26: while two runs interleave on the shared processor and when both have
\* finished, every counter of processing_stats is the sum of the increments
\* of the two runs: total_processed of the results they kept, errors of the
\* rows that failed, escalated_cases, sar_cases and pending_approvals of
\* their results of that kind.
C26_NoLostUpdate ==
    /\ processing_stats.total_processed
          = C26_OverRuns(LAMBDA run : Len(run.results))
    /\ processing_stats.errors
          = C26_OverRuns(LAMBDA run : run.idx - Len(run.results))
    /\ processing_stats.escalated_cases
          = C26_OverRuns(LAMBDA run :
                C26_Kept(run, LAMBDA r : r.risk_level \in {"High", "Critical"}))
    /\ processing_stats.sar_cases
          = C26_OverRuns(LAMBDA run :
                C26_Kept(run, LAMBDA r : r.reporting_status = "SAR_FILED"))
    /\ processing_stats.pending_approvals
          = C26_OverRuns(LAMBDA run :
                C26_Kept(run, LAMBDA r : r.approval_status = "pending"))

\* both runs have finished; each kept a result and lost a row, and each had
\* counted its result before the other built its summary: the runs
\* overlapped
C26_Witness ==
    /\ \A r \in RunIds :
          /\ runs[r].pc = "done"
          /\ runs[r].rows = 2
          /\ Len(runs[r].results) = 1
          /\ runs[r].summary.processed_transactions = 2
    /\ processing_stats.errors = 2

\* ------------------------------------------------------------------------
\* C27
\* ------------------------------------------------------------------------
\* C27 as stated: the summary of every run that has finished reports
\* processed_transactions equal to its total_transactions, the number of
\* results the run returned.
C27_SummaryCountsOwnResults ==
    \A r \in RunIds :
        runs[r].pc = "done" =>
            /\ runs[r].summary.total_transactions = Len(runs[r].results)
            /\ runs[r].summary.processed_transactions
                  = runs[r].summary.total_transactions

\* what holds: processed_transactions is the number of results every run on
\* the processor had counted when the summary was built, at least the
\* number of results of the run itself.
C27_SummaryCountsAllRuns ==
    \A r \in RunIds :
        runs[r].pc = "done" =>
            /\ runs[r].summary.total_transactions = Len(runs[r].results)
            /\ runs[r].summary.processed_transactions
                  >= runs[r].summary.total_transactions
            /\ runs[r].summary.processed_transactions
                  <= processing_stats.total_processed

\* ------------------------------------------------------------------------
\* C28: every case that reaches generate_sar gets a case_id no earlier case
\* has, so that analyze_transaction never stores a SAR-filed result over the
\* result of another case: each such call adds one entry to
\* INVESTIGATION_RESULTS.
\* ------------------------------------------------------------------------
\* analyze_transaction returns the result of a SAR-filed case
C28_StoresSarCase ==
    /\ node = END
    /\ node' = IDLE
    /\ state.reporting_status = "SAR_FILED"

C28_OneEntryPerSarCase ==
    [][C28_StoresSarCase =>
          /\ state.case_id \notin Keys(INVESTIGATION_RESULTS)
          /\ Len(INVESTIGATION_RESULTS') = Len(INVESTIGATION_RESULTS) + 1]_vars

\* ------------------------------------------------------------------------
\* C29: in the graph app.agents exports no case is ever SAR_FILED or gets a
\* case_id; a case that scores 65 or more goes from score_risk to END; so
\* INVESTIGATION_RESULTS stays empty over any sequence of
\* analyze_transaction calls, and every thread query_investigations creates
\* starts without investigation results.
\* ------------------------------------------------------------------------
C29_NoCaseFiled ==
    /\ state.reporting_status # "SAR_FILED"
    /\ state.case_id = None
    /\ INVESTIGATION_RESULTS = <<>>

C29_HighScoreEnds ==
    (node = "score_risk" /\ node' # node /\ state'.risk_score >= 65) => node' = END

C29_ThreadStartsEmpty ==
    Len(CHAT_THREADS') > Len(CHAT_THREADS) =>
        CHAT_THREADS'[Len(CHAT_THREADS')].investigation_results = <<>>

C29_RegistryStaysEmpty ==
    /\ []C29_NoCaseFiled
    /\ [][C29_HighScoreEnds /\ C29_ThreadStartsEmpty]_vars

\* a case that scored 65 or more has been analysed and has ended at
\* score_risk, and the call after it created the first thread
C29_Witness ==
    /\ graph = "simple"
    /\ node = IDLE
    /\ state.risk_score >= 65
    /\ Last(executed) = "score_risk"
    /\ args = [function |-> "query_investigations", thread_id |-> NoThread]
    /\ returned.thread_id = 1
    /\ Len(returned.chat_history) = 2
    /\ returned.statistics.total = 0

\* ------------------------------------------------------------------------
\* C30: in the full graph a factor HIGH_RISK_<country> or TAX_HAVEN_<country>
\* of the rules is among risk_factors only if geo_analysis is in the path
\* of the case, and geo_analysis is in the path only of a non-crypto case
\* whose amount exceeds 100,000 or that names a flagged bank; a case
\* without geo_analysis gets none of these factors, so no points for them at
\* score_risk, whatever its countries are.
\* ------------------------------------------------------------------------
\* rf is a factor geographic_risk_assessment builds from a country
C30_CountryFactor(rf) ==
    \/ \E c \in Range(HIGH_RISK_COUNTRIES) : rf = "HIGH_RISK_" \o c
    \/ \E c \in Range(TAX_HAVENS) : rf = "TAX_HAVEN_" \o c

C30_Assessed == "geo_analysis" \in Range(executed)

C30_LargeOrFlagged ==
    /\ Get(state.transaction, "asset_type", None) # "CRYPTO"
    /\ \/ Get(state.transaction, "amount", 0) > 100000
       \/ Get(state.transaction, "from_bank", None) \in Range(HIGH_RISK_BANKS)
       \/ Get(state.transaction, "to_bank", None) \in Range(HIGH_RISK_BANKS)

C30_CountryFactorsOnlyFromGeo ==
    graph = "full" =>
        /\ (\E i \in 1..Len(state.risk_factors) :
                C30_CountryFactor(state.risk_factors[i])) => C30_Assessed
        /\ C30_Assessed => C30_LargeOrFlagged

\* a scored case of 9,600 through a high-risk country and a tax haven that
\* was not assessed and carries no jurisdiction factor at all
C30_Witness ==
    /\ graph = "full"
    /\ Terminated
    /\ "score_risk" \in Range(executed)
    /\ ~C30_Assessed
    /\ Get(state.transaction, "country", "") = "IR"
    /\ Get(state.transaction, "intermediate_countries", <<>>) = <<"KY", "RU">>
    /\ \A i \in 1..Len(state.risk_factors) :
          /\ ~Contains("HIGH_RISK", state.risk_factors[i])
          /\ ~Contains("TAX_HAVEN", state.risk_factors[i])

====
